---- MODULE Spec2Model ----
(***************************************************************************)
(* Model of the Proteus XML loader of pyDEXPI                              *)
(* (pydexpi/loaders/proteus_serializer): the three-pass loading protocol,  *)
(* the object and error registries, the error boundary of the phase       *)
(* methods, the association repair of the control pass and the piping      *)
(* segment connectivity.                                                   *)
(*                                                                         *)
(* A document is a table of XML elements (one parser node per element, as  *)
(* the factory builds them).  A load is the process ProteusLoader.         *)
(* load_xmlstring: StartLoad (registries reset, parser tree built), then   *)
(* one action per pass call on the root parser.  Each pass is computed by  *)
(* recursive operators that thread the mutable state of the load through   *)
(* the parser tree exactly in the order of the Python statements.          *)
(***************************************************************************)
EXTENDS Integers, Sequences, FiniteSets, TLC

VARIABLES
    doc,        \* the XML document being loaded (element table, injected fault)
    pc,         \* position of load_xmlstring
    model,      \* load_xmlstring's local depxi_model
    errors,     \* ErrorRegistry.errors, the diagnostic log
    objects,    \* ObjectRegistry.objects, id -> object reference
    ps,         \* fields of every parser node
    heap,       \* the domain objects created so far, reference -> fields
    calls,      \* trace of phase-method calls (enter/exit), a history variable
    writes,     \* trace of the writes to ObjectRegistry.objects, a history variable
    returned,   \* value returned by load_xmlstring, or NoObj
    raised,     \* exception that left load_xmlstring, or NoExc
    loads,      \* number of loads started on this loader
    call,       \* the call made on a component driven on its own: [op, arg]
    result      \* what that call returned

vars == <<doc, pc, model, errors, objects, ps, heap, calls, writes, returned, raised,
          loads, call, result>>

(***************************************************************************)
(* Bounds of the model.                                                    *)
(***************************************************************************)
MaxElems == 3       \* ordered elements of a piping network segment
MaxLoads == 1       \* loads run on one loader

(***************************************************************************)
(* Python values.                                                          *)
(***************************************************************************)
NoId == "None"          \* an absent XML attribute (Python None)
EmptyId == ""           \* an attribute that is present and empty
NoObj == 0              \* Python None where an object is expected
NoIdx == -99            \* Python None where an integer index is expected
BadIdx == -98           \* an index attribute that int() cannot parse
Unparsed == -1          \* ConnectionPointParser's "not parsed yet" sentinel

NoExc == "none"
\* no call made, and the value of a call that returned nothing
NoCall == [op |-> "none", arg |-> <<>>]
Nothing == [kind |-> "nothing"]
InternalParserError == "InternalParserError"
ValueError == "ValueError"
DataError == "ValidationError"   \* any other exception raised by bad data
TypeError == "TypeError"

\* the range of a sequence
Range(s) == {s[i] : i \in 1..Len(s)}


\* list.reverse()
Reverse(s) == [i \in 1..Len(s) |-> s[Len(s) + 1 - i]]

\* parsing_utils.filter_none
filter_none(items) == SelectSeq(items, LAMBDA x : x # NoObj)

(***************************************************************************)
(* XML documents.  An element carries its tag (cls), its parent and child  *)
(* elements, and the attributes the parsers read.  One parser node is      *)
(* built per element, so element numbers double as parser-node numbers.    *)
(***************************************************************************)
Elem(cls, parent, kids, id) ==
    [cls |-> cls, parent |-> parent, kids |-> kids, id |-> id,
     cc |-> "Vessel",         \* ComponentClass
     itemId |-> NoId,         \* Association/@ItemID
     atype |-> NoId,          \* Association/@Type
     fromId |-> NoId, toId |-> NoId,      \* Connection/@FromID, @ToID
     fromNode |-> NoIdx, toNode |-> NoIdx, \* Connection/@FromNode, @ToNode
     flowIn |-> NoIdx, flowOut |-> NoIdx, \* ConnectionPoints/@FlowIn, @FlowOut
     numPoints |-> Len(kids), \* ConnectionPoints/@NumPoints
     info |-> "ok"]           \* PlantModel: state of the PlantInformation block

NoFault == [n |-> 0, ph |-> "none", kind |-> NoExc]

ItemTags == {"PipingComponent", "PipeOffPageConnector", "PropertyBreak"}

\* Family 1: plant with two equipment items, a nozzle with one connection point
\* and one association, an equipment association, and an actuating system with
\* two components.
EqDoc(e1, nz, pn, aItem, aType, bItem, bType, as, c1, c2, cc1, info, fault) ==
    [els |-> <<
        [Elem("PlantModel", 0, <<2, 3, 9>>, NoId) EXCEPT !.info = info],
        Elem("Equipment", 1, <<4, 8>>, e1),
        [Elem("Equipment", 1, <<>>, "e2") EXCEPT !.cc = "Chamber"],
        Elem("Nozzle", 2, <<5, 7>>, nz),
        Elem("ConnectionPoints", 4, <<6>>, NoId),
        Elem("PipingNode", 5, <<>>, pn),
        [Elem("Association", 4, <<>>, NoId) EXCEPT !.itemId = aItem, !.atype = aType],
        [Elem("Association", 2, <<>>, NoId) EXCEPT !.itemId = bItem, !.atype = bType],
        Elem("ActuatingSystem", 1, <<10, 11>>, as),
        [Elem("ActuatingSystemComponent", 9, <<>>, c1) EXCEPT !.cc = cc1],
        [Elem("ActuatingSystemComponent", 9, <<>>, c2) EXCEPT !.cc = "Positioner"]
     >>,
     fault |-> fault]

\* ids of the process nodes of the piping items, by element number
NodeIdNames == <<"x1", "x2", "x3", "x4", "x5", "x6", "x7", "x8", "x9", "x10",
                 "x11", "x12", "x13", "x14", "x15", "x16", "x17", "x18", "x19",
                 "x20", "x21", "x22", "x23", "x24", "x25", "x26", "x27", "x28",
                 "x29", "x30">>

\* Family 2: plant with one piping network system holding one segment of up to
\* MaxElems ordered elements; an item is a piping component with one
\* ConnectionPoints block of two process nodes.
SegBase == 3
SegStride == 4
ElemNode(j) == SegBase + SegStride * (j - 1) + 1

SegElems(kinds, ids, flows) ==
    [n \in 1..(SegStride * Len(kinds)) |->
        LET j == ((n - 1) \div SegStride) + 1
            k == ((n - 1) % SegStride)
            me == ElemNode(j)
        IN  IF kinds[j] = "CenterLine"
            THEN IF k = 0 THEN Elem("CenterLine", SegBase, <<>>, NoId)
                 ELSE Elem("Unused", 0, <<>>, NoId)
            ELSE CASE k = 0 -> [Elem(kinds[j], SegBase, <<me + 1>>, ids[j])
                                  EXCEPT !.cc = kinds[j]]
                   [] k = 1 -> [Elem("ConnectionPoints", me, <<me + 2, me + 3>>, NoId)
                                  EXCEPT !.flowIn = flows[j][1], !.flowOut = flows[j][2]]
                   [] OTHER -> Elem("PipingNode", me + 1, <<>>, NodeIdNames[SegBase + n])]

SegDoc(sid, kinds, ids, flows, fromId, toId, fault) ==
    [els |-> <<
        Elem("PlantModel", 0, <<2>>, NoId),
        Elem("PipingNetworkSystem", 1, <<3>>, "sys"),
        [Elem("PipingNetworkSegment", 2, [j \in 1..Len(kinds) |-> ElemNode(j)], sid)
            EXCEPT !.fromId = fromId, !.toId = toId]
     >> \o SegElems(kinds, ids, flows),
     fault |-> fault]

\* Family 2b: plant with one piping network system of several segments of
\* up to two ordered elements each; ids[s] is the ID of segment s and
\* kinds[s] are the tags of its elements
SysStride == 2 * SegStride + 1
SysBase(s) == SegBase + SysStride * (s - 1)
SysElem(s, j) == SysBase(s) + SegStride * (j - 1) + 1
SysItemIds == <<"a", "b", "c", "d", "e", "f">>

SysSegment(s, sid, kinds) ==
    [n \in 1..SysStride |->
        LET j == ((n + 2) \div SegStride)
            k == ((n + 2) % SegStride)
            me == SysElem(s, j)
        IN  IF n = 1
            THEN Elem("PipingNetworkSegment", 2, [i \in 1..Len(kinds) |-> SysElem(s, i)], sid)
            ELSE IF j > Len(kinds) \/ (kinds[j] = "CenterLine" /\ k # 0)
            THEN Elem("Unused", 0, <<>>, NoId)
            ELSE IF kinds[j] = "CenterLine" THEN Elem("CenterLine", SysBase(s), <<>>, NoId)
            ELSE CASE k = 0 -> [Elem(kinds[j], SysBase(s), <<me + 1>>,
                                     SysItemIds[2 * (s - 1) + j])
                                  EXCEPT !.cc = kinds[j]]
                   [] k = 1 -> Elem("ConnectionPoints", me, <<me + 2, me + 3>>, NoId)
                   [] OTHER -> Elem("PipingNode", me + 1, <<>>, NodeIdNames[me + k])]

RECURSIVE SysSegments(_, _, _)
SysSegments(ids, kinds, s) ==
    IF s > Len(ids) THEN <<>>
    ELSE SysSegment(s, ids[s], kinds[s]) \o SysSegments(ids, kinds, s + 1)

SysDoc(ids, kinds, fault) ==
    [els |-> <<
        Elem("PlantModel", 0, <<2>>, NoId),
        Elem("PipingNetworkSystem", 1, [s \in 1..Len(ids) |-> SysBase(s)], "sys")
     >> \o SysSegments(ids, kinds, 1),
     fault |-> fault]

\* Family 3: plant with one piping component that carries an association, and
\* an actuating system whose component carries an association.
ValveDoc(pItem, pType, cc, vItem, vType, fault) ==
    [els |-> <<
        Elem("PlantModel", 0, <<2, 8>>, NoId),
        Elem("PipingNetworkSystem", 1, <<3>>, "sys"),
        Elem("PipingNetworkSegment", 2, <<4>>, "s"),
        [Elem("PipingComponent", 3, <<5, 7>>, "a") EXCEPT !.cc = "PipingComponent"],
        Elem("ConnectionPoints", 4, <<6>>, NoId),
        Elem("PipingNode", 5, <<>>, "x6"),
        [Elem("Association", 4, <<>>, NoId) EXCEPT !.itemId = pItem, !.atype = pType],
        Elem("ActuatingSystem", 1, <<9>>, "as"),
        [Elem("ActuatingSystemComponent", 8, <<10>>, "ov") EXCEPT !.cc = cc],
        [Elem("Association", 9, <<>>, NoId) EXCEPT !.itemId = vItem, !.atype = vType]
     >>,
     fault |-> fault]

\* Family 4: plant with two equipment items and one piping network system
\* whose first segment holds a piping component, a center line and a pipe
\* off-page connector o1; o1 carries a reference with one association, and a
\* second reference by number when two is set.  The connector o2 is an
\* element of the same segment, of another segment, or of no segment.
OpcDoc(where, rid, rcc, aType, aItem, two, fault) ==
    [els |-> <<
        Elem("PlantModel", 0, <<2, 3, 4>>, NoId),
        Elem("Equipment", 1, <<>>, "e1"),
        [Elem("Equipment", 1, <<>>, "e2") EXCEPT !.cc = "Chamber"],
        Elem("PipingNetworkSystem", 1, IF where = "other" THEN <<5, 12>> ELSE <<5>>, "sys"),
        Elem("PipingNetworkSegment", 4,
             IF where = "same" THEN <<6, 7, 8, 11>> ELSE <<6, 7, 8>>, "s"),
        [Elem("PipingComponent", 5, <<>>, "a") EXCEPT !.cc = "PipingComponent"],
        Elem("CenterLine", 5, <<>>, NoId),
        [Elem("PipeOffPageConnector", 5, IF two THEN <<9, 13>> ELSE <<9>>, "o1")
            EXCEPT !.cc = "PipeOffPageConnector"],
        [Elem("PipeOffPageConnectorReference", 8, <<10>>, rid) EXCEPT !.cc = rcc],
        [Elem("Association", 9, <<>>, NoId) EXCEPT !.itemId = aItem, !.atype = aType],
        IF where = "none" THEN Elem("Unused", 0, <<>>, NoId)
        ELSE [Elem("PipeOffPageConnector", IF where = "same" THEN 5 ELSE 12, <<>>, "o2")
                 EXCEPT !.cc = "PipeOffPageConnector"],
        IF where = "other" THEN Elem("PipingNetworkSegment", 4, <<11>>, "s2")
        ELSE Elem("Unused", 0, <<>>, NoId),
        IF two
        THEN [Elem("PipeOffPageConnectorReference", 8, <<>>, "r2")
                 EXCEPT !.cc = "PipeOffPageConnectorReferenceByNumber"]
        ELSE Elem("Unused", 0, <<>>, NoId)
     >>,
     fault |-> fault]

\* Family 5: plant with one equipment item and one instrumentation loop
\* function that carries two associations.
LoopDoc(lid, aType, aItem, bType, bItem, fault) ==
    [els |-> <<
        Elem("PlantModel", 0, <<2, 3>>, NoId),
        Elem("Equipment", 1, <<>>, "e1"),
        Elem("InstrumentationLoopFunction", 1, <<4, 5>>, lid),
        [Elem("Association", 3, <<>>, NoId) EXCEPT !.itemId = aItem, !.atype = aType],
        [Elem("Association", 3, <<>>, NoId) EXCEPT !.itemId = bItem, !.atype = bType]
     >>,
     fault |-> fault]

NoDoc == [els |-> <<>>, fault |-> NoFault]

Nodes(d) == 1..Len(d.els)
Cls(d, n) == d.els[n].cls
KidsOf(d, n, tags) == SelectSeq(d.els[n].kids, LAMBDA k : d.els[k].cls \in tags)

(***************************************************************************)
(* Domain classes.  The pydantic classes live outside the loader package;  *)
(* only the fields the loader names are kept, in declaration order.  A     *)
(* field holds a sequence of object references: an unset singular field    *)
(* is the empty sequence.                                                  *)
(***************************************************************************)
Fld(name, many, accepts) == [name |-> name, many |-> many, accepts |-> accepts]

EquipmentClasses == {"Vessel", "Chamber", "CustomEquipment"}
ItemClasses == {"PipingComponent", "CustomPipingComponent", "PipeOffPageConnector",
                "PropertyBreak"}
ConnectionClasses == {"Pipe", "DirectPipingConnection"}
ReferenceClasses == {"PipeOffPageConnectorObjectReference",
                     "PipeOffPageConnectorReferenceByNumber"}
ComponentClasses == {"ControlledActuator", "OperatedValveReference", "Positioner",
                     "CustomActuatingSystemComponent"}
EndClasses == ItemClasses \cup {"Nozzle"}

Schema(cls) ==
    CASE cls = "Nozzle" ->
            <<Fld("chamber", FALSE, {"Chamber"}), Fld("nodes", TRUE, {"PipingNode"})>>
      [] cls \in EquipmentClasses ->
            <<Fld("chambers", TRUE, {"Chamber"}), Fld("nozzles", TRUE, {"Nozzle"})>>
      [] cls \in ItemClasses ->
            <<Fld("connectorReference", FALSE, ReferenceClasses),
              Fld("nodes", TRUE, {"PipingNode"})>>
      [] cls \in ConnectionClasses ->
            <<Fld("sourceItem", FALSE, EndClasses), Fld("sourceNode", FALSE, {"PipingNode"}),
              Fld("targetItem", FALSE, EndClasses), Fld("targetNode", FALSE, {"PipingNode"})>>
      [] cls = "PipingNetworkSegment" ->
            <<Fld("connections", TRUE, ConnectionClasses), Fld("items", TRUE, ItemClasses),
              Fld("sourceItem", FALSE, EndClasses), Fld("sourceNode", FALSE, {"PipingNode"}),
              Fld("targetItem", FALSE, EndClasses), Fld("targetNode", FALSE, {"PipingNode"})>>
      [] cls = "PipingNetworkSystem" ->
            <<Fld("segments", TRUE, {"PipingNetworkSegment"})>>
      [] cls = "ActuatingSystem" ->
            <<Fld("controlledActuator", FALSE, {"ControlledActuator"}),
              Fld("customComponents", TRUE, {"CustomActuatingSystemComponent"}),
              Fld("operatedValveReference", FALSE, {"OperatedValveReference"}),
              Fld("positioner", FALSE, {"Positioner"})>>
      [] cls = "OperatedValveReference" ->
            <<Fld("valve", FALSE, ItemClasses)>>
      [] cls = "PipeOffPageConnectorObjectReference" ->
            <<Fld("referencedConnector", FALSE, {"PipeOffPageConnector"})>>
      [] cls = "InstrumentationLoopFunction" ->
            <<Fld("processInstrumentationFunctions", TRUE, {"ProcessInstrumentationFunction"})>>
      [] cls = "DexpiModel" ->
            <<Fld("actuatingSystems", TRUE, {"ActuatingSystem"}),
              Fld("instrumentationLoopFunctions", TRUE, {"InstrumentationLoopFunction"}),
              Fld("pipingNetworkSystems", TRUE, {"PipingNetworkSystem"}),
              Fld("taggedPlantItems", TRUE, EquipmentClasses)>>
      [] OTHER -> <<>>

FieldNames(cls) == {fld.name : fld \in Range(Schema(cls))}

\* a new object of class cls; given maps some field names to their values,
\* typeName among them for the custom classes
NewObj(cls, given) ==
    [cls |-> cls,
     typeName |-> IF "typeName" \in DOMAIN given THEN given.typeName ELSE NoId,
     val |-> [f \in FieldNames(cls) |-> IF f \in DOMAIN given THEN given[f] ELSE <<>>]]

ClsOf(h, r) == IF r \in DOMAIN h THEN h[r].cls ELSE "NoneType"

\* value of a singular field (NoObj when unset)
Get(h, r, f) == IF h[r].val[f] = <<>> THEN NoObj ELSE h[r].val[f][1]
\* assignment to a singular field of an existing object
Set(h, r, f, v) == [h EXCEPT ![r].val[f] = IF v = NoObj THEN <<>> ELSE <<v>>]

\* "attr_val == member" for a singular field holding v, "member in attr_val"
\* for a list
FieldHolds(fld, v, member) ==
    IF fld.many THEN member \in Range(v)
    ELSE (IF v = <<>> THEN NoObj ELSE v[1]) = member

\* a membership test that looks at the singular fields only
is_associated_with_Singular(h, member, container) ==
    \E fld \in Range(Schema(ClsOf(h, container))) :
        ~fld.many /\ FieldHolds(fld, h[container].val[fld.name], member)

\* parsing_utils.is_associated_with
is_associated_with(h, member, container) ==
    \E fld \in Range(Schema(ClsOf(h, container))) :
        FieldHolds(fld, h[container].val[fld.name], member)

\* a test that takes a singular field for open also when it holds an object
FieldTakes_Unset(h, x, owner, fld) ==
    IF fld.many THEN ClsOf(h, x) \in fld.accepts
    ELSE x = NoObj \/ ClsOf(h, x) \in fld.accepts

\* whether field fld of the owner takes x: an unset singular field whose type
\* accepts x (setattr passes validation), or a list whose element type does
FieldTakes(h, x, owner, fld) ==
    IF fld.many THEN ClsOf(h, x) \in fld.accepts
    ELSE h[owner].val[fld.name] = <<>>
         /\ (x = NoObj \/ ClsOf(h, x) \in fld.accepts)

\* index of the first of the owner's fields flds that add_by_inferring_type
\* assigns to, 0 when none
RECURSIVE FirstField(_, _, _, _, _)
FirstField(h, x, owner, flds, i) ==
    IF i > Len(flds) THEN 0
    ELSE IF FieldTakes(h, x, owner, flds[i]) THEN i
    ELSE FirstField(h, x, owner, flds, i + 1)

\* the assignment to field fld, or the append to it: [ok, heap, field]
AddToField(h, x, owner, fld) ==
    [ok |-> TRUE,
     heap |-> IF fld.many THEN [h EXCEPT ![owner].val[fld.name] = Append(@, x)]
              ELSE Set(h, owner, fld.name, x),
     field |-> fld.name]

\* the loop of add_by_inferring_type over the owner's fields flds; ok = FALSE
\* is the ValueError, raised with the owner unchanged
AddByType(h, x, owner, flds, i) ==
    IF i = 0 THEN [ok |-> FALSE, heap |-> h, field |-> "none"]
    ELSE AddToField(h, x, owner, flds[i])

\* parsing_utils.add_by_inferring_type
add_by_inferring_type(h, x, owner) ==
    AddByType(h, x, owner, Schema(ClsOf(h, owner)),
              FirstField(h, x, owner, Schema(ClsOf(h, owner)), 1))

(***************************************************************************)
(* The mutable state of a load, threaded through the passes:               *)
(*   errors, objects, ps, heap, calls, writes  as the variables of the     *)
(*          same name;                                                     *)
(*   exc    the exception in flight (NoExc when none);                     *)
(*   ret    the value returned by the last phase method (NoObj for None);  *)
(*   rlist  the list returned by a phase method that returns a list.       *)
(***************************************************************************)
Raise(st, kind) == [st EXCEPT !.exc = kind, !.ret = NoObj, !.rlist = <<>>]
Return(st, r) == [st EXCEPT !.ret = r, !.rlist = <<>>]
ReturnList(st, marker, l) == [st EXCEPT !.ret = marker, !.rlist = l]

\* history of phase-method calls: a call entered, returned from (exit) or
\* left by an exception (raise)
Enter(st, n, ph) ==
    [st EXCEPT !.calls = Append(@, [ev |-> "enter", n |-> n, ph |-> ph, exc |-> NoExc,
                                    ret |-> NoObj])]
Exit(st, n, ph) ==
    [st EXCEPT !.calls = Append(@, [ev |-> IF st.exc = NoExc THEN "exit" ELSE "raise",
                                    n |-> n, ph |-> ph, exc |-> st.exc, ret |-> st.ret])]

\* a fault injected at phase ph of node n: an exception raised by the code
\* of that phase method itself (a validation error of the domain classes, a
\* broken invariant of the parser)
Fault(d, n, ph) == d.fault.n = n /\ d.fault.ph = ph

\* core.ModuleContext.get_updated_context: the id stack of node n's context
RECURSIVE id_stack(_, _)
id_stack(d, n) ==
    IF d.els[n].parent = 0 THEN <<NoId>>
    ELSE Append(id_stack(d, d.els[n].parent), d.els[n].id)

\* core.ModuleContext.get_last_id; NoId stands for the ValueError that
\* ModuleContext.register_error turns into a null id
RECURSIVE LastId(_, _)
LastId(s, i) ==
    IF i = 0 THEN NoId
    ELSE IF s[i] # NoId THEN s[i] ELSE LastId(s, i - 1)

\* the id on top of the stack, null or not
get_last_id_Top(s) == s[Len(s)]

get_last_id(s) == LastId(s, Len(s))

\* a diagnostic message: the template, the element named, the id and the
\* field named ("" where the template has none)
Msg(kind, who, arg, fld) == [kind |-> kind, who |-> who, arg |-> arg, fld |-> fld]

\* a registry that only records the error
ErrorRegistry_register_error_NoReraise(st, entry) == [st EXCEPT !.errors = Append(@, entry)]

\* a registry that raises an internal error before it records it
ErrorRegistry_register_error_RaiseFirst(st, entry) ==
    IF entry.exc = InternalParserError THEN Raise(st, InternalParserError)
    ELSE [st EXCEPT !.errors = Append(@, entry)]

\* core.ErrorRegistry.register_error: append, then re-raise an internal error
ErrorRegistry_register_error(st, entry) ==
    LET s1 == [st EXCEPT !.errors = Append(@, entry)]
    IN  IF entry.exc = InternalParserError THEN Raise(s1, InternalParserError) ELSE s1

\* core.ModuleContext.register_error (ParserModule.register_error delegates)
register_error(d, n, st, msg, level, pid, exc) ==
    ErrorRegistry_register_error(st,
        [msg |-> msg, level |-> level, src |-> n, exc |-> exc,
         id |-> IF pid = NoId THEN get_last_id(id_stack(d, n)) ELSE pid])

\* a registry that keeps the object an id was first registered with
register_object_KeepFirst(st, pid, obj) ==
    [st EXCEPT !.objects = [k \in DOMAIN @ \cup {pid} |-> IF k \in DOMAIN @ THEN @[k] ELSE obj],
               !.writes = Append(@, [id |-> pid, obj |-> obj, at |-> Len(st.calls)])]

\* core.ObjectRegistry.register_object / get_object
register_object(st, pid, obj) ==
    [st EXCEPT !.objects = [k \in DOMAIN @ \cup {pid} |-> IF k = pid THEN obj ELSE @[k]],
               !.writes = Append(@, [id |-> pid, obj |-> obj, at |-> Len(st.calls)])]

get_object(st, pid) == IF pid \in DOMAIN st.objects THEN st.objects[pid] ELSE NoObj

PhaseName(ph) ==
    CASE ph = "comp" -> "compositional_pass"
      [] ph = "ref" -> "reference_pass"
      [] ph = "ctl" -> "control_pass"

\* parsing_utils.redirect_errors_to_registry, applied to the state r in which
\* the wrapped method of node n ended
redirect_errors_to_registry(d, n, ph, r) ==
    IF r.exc = NoExc THEN r
    ELSE LET caught == [r EXCEPT !.exc = NoExc, !.ret = NoObj, !.rlist = <<>>]
         IN  register_error(d, n, caught,
                            Msg("parsing step", PhaseName(ph), d.els[n].cls, ""),
                            "ERROR", NoId, r.exc)

\* parsing_utils.ErrorTemplates: message and level
Tmpl(kind, who, arg, fld, level) == [msg |-> Msg(kind, who, arg, fld), level |-> level]
id_not_found(name) == Tmpl("id_not_found", name, "", "", "ERROR")
skip_pass(pass, name) == Tmpl("skip_pass", name, pass, "", "INFO")
no_assoc_ctrl(name, aid) == Tmpl("no_assoc_ctrl", name, aid, "", "WARNING")
assoc_added_ctrl(name, aid, fld, reverse) ==
    Tmpl(IF reverse THEN "assoc_added_ctrl reverse" ELSE "assoc_added_ctrl", name, aid, fld, "INFO")
assoc_not_added_ctrl(name, aid) == Tmpl("assoc_not_added_ctrl", name, aid, "", "ERROR")
inval_assoc_type(name, atype) == Tmpl("inval_assoc_type", name, atype, "", "ERROR")

\* self.register_error(*template)
register_template(d, n, st, t) == register_error(d, n, st, t.msg, t.level, NoId, NoExc)

\* AssociationParser.get_error_message
get_error_message(p) ==
    IF p.assocId = NoId THEN Msg("assoc", "ItemID missing", "", "")
    ELSE IF p.assocType = NoId THEN Msg("assoc", "Type missing", "", "")
    ELSE Msg("assoc", "not found", p.assocId, "")

\* AssociationParser.is_valid
is_valid(p) == p.assocId # NoId /\ p.assocType # NoId /\ p.refItem # NoObj

\* the fields of a parser node right after the factory built it
NewParser ==
    [obj |-> NoObj, pid |-> NoId,
     assocId |-> NoId, assocType |-> NoId, refItem |-> NoObj,
     flowIn |-> Unparsed, flowOut |-> Unparsed,
     nodes |-> <<>>, mainIn |-> NoObj, mainOut |-> NoObj,
     ordered |-> <<>>, itemPs |-> <<>>, clinePs |-> <<>>,
     parsed |-> FALSE, elems |-> <<>>, inMap |-> <<>>, outMap |-> <<>>,
     fromId |-> NoId, toId |-> NoId, fromNode |-> NoIdx, toNode |-> NoIdx,
     segIds |-> <<>>]

(***************************************************************************)
(* The phase methods.  Run(d, ph, n, st) is the call of phase ph on the    *)
(* parser of element n in state st; it is defined after the bodies of the  *)
(* classes, which call it on their children.                               *)
(***************************************************************************)
RECURSIVE Run(_, _, _, _)

\* [m.<phase>() for m in ks], stopped by an exception: the state, the values
\* returned and the lists returned
RECURSIVE RunFrom(_, _, _, _, _)
RunFrom(d, ph, ks, i, acc) ==
    IF i > Len(ks) \/ acc.st.exc # NoExc THEN acc
    ELSE LET r == Run(d, ph, ks[i], acc.st)
         IN  RunFrom(d, ph, ks, i + 1,
                     [st |-> r, rets |-> Append(acc.rets, r.ret),
                      lists |-> Append(acc.lists, r.rlist)])

RunAll(d, ph, ks, st) == RunFrom(d, ph, ks, 1, [st |-> st, rets |-> <<>>, lists |-> <<>>])

\* the lists returned by the calls that did not return None, concatenated
RECURSIVE Extend(_, _)
Extend(a, i) ==
    IF i > Len(a.rets) THEN <<>>
    ELSE (IF a.rets[i] # NoObj THEN a.lists[i] ELSE <<>>) \o Extend(a, i + 1)

\* the constructor call of a domain class in the compositional pass of node
\* n, not reached with an exception in flight; the new object is referred to
\* by n
Create(d, n, st, cls, given) ==
    IF st.exc # NoExc THEN st
    ELSE IF Fault(d, n, "comp") THEN Raise(st, d.fault.kind)
    ELSE [st EXCEPT !.heap = [r \in DOMAIN @ \cup {n} |->
                                 IF r = n THEN NewObj(cls, given) ELSE @[r]],
                    !.ret = n, !.rlist = <<>>]

\* self.<object> = the object built, not reached with an exception in flight
Kept(st, n) == IF st.exc # NoExc THEN st ELSE [st EXCEPT !.ps[n].obj = n]

\* register_object(id, object); return object, not reached with an exception
\* in flight
Registered(st, pid, n) ==
    IF st.exc # NoExc THEN st ELSE Return(register_object(st, pid, n), n)

\* the state after an assignment r = [ok, heap]: the new heap when the value
\* was accepted, the state failed when it was not
Stored(st, r, failed) == IF r.ok THEN [st EXCEPT !.heap = r.heap] ELSE failed

\* an overridden pass that skips its own work without a message
OwnPass_Silent(d, n, ph, s1, built, skip, done) ==
    IF s1.exc # NoExc THEN s1
    ELSE IF Fault(d, n, ph) THEN Raise(s1, d.fault.kind)
    ELSE IF ~built THEN Return(s1, NoObj)
    ELSE Return(done, NoObj)

\* an overridden reference or control pass once the pass of the parent class
\* ended in s1: the work of the parser itself, which ends in the state done,
\* is skipped with the message skip when no object was built
OwnPass(d, n, ph, s1, built, skip, done) ==
    IF s1.exc # NoExc THEN s1
    ELSE IF Fault(d, n, ph) THEN Raise(s1, d.fault.kind)
    ELSE IF ~built THEN Return(register_template(d, n, s1, skip), NoObj)
    ELSE Return(done, NoObj)

\* core.ParserModule.reference_pass / control_pass: the submodules in the
\* order they were registered
DefaultPass(d, ph, n, subs, st) == Return(RunAll(d, ph, subs, st).st, NoObj)

\* AssociationParser.compositional_pass
AssociationParser_compositional_pass(d, n, st) ==
    IF Fault(d, n, "comp") THEN Raise(st, d.fault.kind)
    ELSE Return([st EXCEPT !.ps[n].assocId = d.els[n].itemId,
                           !.ps[n].assocType = d.els[n].atype], NoObj)

\* a lookup that stores what it found under the id, like dict.setdefault
AssociationParser_reference_pass_Storing(d, n, st) ==
    IF Fault(d, n, "ref") THEN Raise(st, d.fault.kind)
    ELSE IF st.ps[n].assocId # NoId
         THEN Return([register_object(st, st.ps[n].assocId, get_object(st, st.ps[n].assocId))
                         EXCEPT !.ps[n].refItem = get_object(st, st.ps[n].assocId)], NoObj)
         ELSE Return(st, NoObj)

\* AssociationParser.reference_pass
AssociationParser_reference_pass(d, n, st) ==
    IF Fault(d, n, "ref") THEN Raise(st, d.fault.kind)
    ELSE IF st.ps[n].assocId # NoId
         THEN Return([st EXCEPT !.ps[n].refItem = get_object(st, st.ps[n].assocId)], NoObj)
         ELSE Return(st, NoObj)

\* PipingNodeParser.compositional_pass
PipingNodeParser_compositional_pass(d, n, st) ==
    Registered(Create(d, n,
                      IF d.els[n].id = NoId
                      THEN register_template(d, n, st, id_not_found("Node"))
                      ELSE st,
                      "PipingNode", <<>>),
               d.els[n].id, n)

\* self.<field> = int(self.element.get(attr)) if present else None, a failure
\* logged as a WARNING and defaulting to None
ParseIndex(d, n, st, field, v) ==
    IF v = BadIdx
    THEN [register_error(d, n, st, Msg("index", "unparsable", "", ""),
                         "WARNING", NoId, ValueError) EXCEPT !.ps[n][field] = NoIdx]
    ELSE [st EXCEPT !.ps[n][field] = v]

\* the check of NumPoints against the number of nodes
CheckNumPoints(d, n, st) ==
    IF d.els[n].numPoints = NoIdx
    THEN register_error(d, n, st, Msg("NumPoints", "unparsable", "", ""),
                        "WARNING", NoId, DataError)
    ELSE IF d.els[n].numPoints # Len(KidsOf(d, n, {"PipingNode"}))
    THEN register_error(d, n, st, Msg("NumPoints", "mismatch", "", ""),
                        "WARNING", NoId, NoExc)
    ELSE st

\* ConnectionPointParser.compositional_pass once the node parsers ended in a
PointsParsed(d, n, a) ==
    IF a.st.exc # NoExc THEN a.st
    ELSE ReturnList(ParseIndex(d, n,
                               ParseIndex(d, n, CheckNumPoints(d, n, a.st),
                                          "flowIn", d.els[n].flowIn),
                               "flowOut", d.els[n].flowOut),
                    n, filter_none(a.rets))

\* ConnectionPointParser.compositional_pass
ConnectionPointParser_compositional_pass(d, n, st) ==
    PointsParsed(d, n, RunAll(d, "comp", KidsOf(d, n, {"PipingNode"}), st))

\* truth value of "self.<obj> and self.<id>": an object was built and the id
\* is a non-empty string
Built(p) == p.obj # NoObj /\ p.pid # NoId /\ p.pid # EmptyId

\* assignment to a validated singular field: [ok, heap]
Assign(h, owner, f, x) ==
    IF x = NoObj
       \/ ClsOf(h, x) \in (CHOOSE fld \in Range(Schema(ClsOf(h, owner))) : fld.name = f).accepts
    THEN [ok |-> TRUE, heap |-> Set(h, owner, f, x)]
    ELSE [ok |-> FALSE, heap |-> h]

\* the association added to the object it names (add = [ok, heap, field]),
\* logged; s0 is the state in which the missing association was logged
AddedForward(d, n, s0, name, aid, add) ==
    IF add.ok
    THEN register_template(d, n, [s0 EXCEPT !.heap = add.heap],
                           assoc_added_ctrl(name, aid, add.field, FALSE))
    ELSE register_error(d, n, s0, assoc_not_added_ctrl(name, aid).msg,
                        "ERROR", NoId, ValueError)

\* the association added forward (fwd), and in reverse (bwd) when that fails
AddedEitherWay(d, n, s0, name, aid, reverse, fwd, bwd) ==
    IF ~fwd.ok /\ bwd.ok
    THEN register_template(d, n, [s0 EXCEPT !.heap = bwd.heap],
                           assoc_added_ctrl(name, aid, bwd.field, reverse))
    ELSE AddedForward(d, n, s0, name, aid, fwd)

\* the repair of the control pass shared by the nozzle and equipment parsers
RepairBothWays(d, n, st, name, mine, other, aid, reverse) ==
    AddedEitherWay(d, n, register_template(d, n, st, no_assoc_ctrl(name, aid)),
                   name, aid, reverse,
                   add_by_inferring_type(st.heap, mine, other),
                   add_by_inferring_type(st.heap, other, mine))

\* NozzleParser.compositional_pass
NozzleParser_compositional_pass(d, n, st) ==
    LET s1 == [st EXCEPT !.ps[n].pid = d.els[n].id]
        a == RunAll(d, "comp", KidsOf(d, n, {"ConnectionPoints"}), s1)
        b == RunAll(d, "comp", KidsOf(d, n, {"Association"}), a.st)
    IN  IF d.els[n].id = NoId
        THEN Return(register_template(d, n, s1, id_not_found("Nozzle")), NoObj)
        ELSE Registered(Kept(Create(d, n, b.st, "Nozzle",
                                    [nodes |-> filter_none(Extend(a, 1))]), n),
                        d.els[n].id, n)

\* the loop over the associations in NozzleParser.reference_pass
RECURSIVE NozzleRefLoop(_, _, _, _, _)
NozzleRefLoop(d, n, ks, i, st) ==
    IF i > Len(ks) \/ st.exc # NoExc THEN st
    ELSE LET p == st.ps[ks[i]]
         IN  NozzleRefLoop(d, n, ks, i + 1,
                 IF ~is_valid(p)
                 THEN register_error(d, n, st, get_error_message(p), "ERROR", NoId, NoExc)
                 ELSE IF p.assocType = "is located in"
                 THEN Stored(st, Assign(st.heap, st.ps[n].obj, "chamber", p.refItem),
                             register_error(d, n, st, Msg("chamber", "Nozzle", p.assocId, ""),
                                            "ERROR", NoId, DataError))
                 ELSE IF p.assocType = "is the location of" THEN st
                 ELSE register_error(d, n, st, Msg("not permitted", "Nozzle", p.assocType, ""),
                                     "WARNING", NoId, NoExc))

\* NozzleParser.reference_pass
NozzleParser_reference_pass(d, n, st) ==
    LET subs == KidsOf(d, n, {"ConnectionPoints"}) \o KidsOf(d, n, {"Association"})
        s1 == DefaultPass(d, "ref", n, subs, st)
    IN  OwnPass(d, n, "ref", s1, Built(s1.ps[n]), skip_pass("reference", "Nozzle"),
                NozzleRefLoop(d, n, KidsOf(d, n, {"Association"}), 1, s1))

\* the loop over the associations in NozzleParser.control_pass
RECURSIVE NozzleCtlLoop(_, _, _, _, _)
NozzleCtlLoop(d, n, ks, i, st) ==
    IF i > Len(ks) \/ st.exc # NoExc THEN st
    ELSE LET p == st.ps[ks[i]]
             me == st.ps[n].obj
         IN  NozzleCtlLoop(d, n, ks, i + 1,
                 IF ~is_valid(p)
                 THEN register_error(d, n, st, get_error_message(p), "ERROR", NoId, NoExc)
                 ELSE IF p.assocType \notin {"is located in", "is the location of"} THEN st
                 ELSE IF is_associated_with(st.heap, me, p.refItem)
                         \/ is_associated_with(st.heap, p.refItem, me)
                 THEN st
                 ELSE RepairBothWays(d, n, st, "Nozzle", me, p.refItem, p.assocId, FALSE))

\* NozzleParser.control_pass
NozzleParser_control_pass(d, n, st) ==
    LET subs == KidsOf(d, n, {"ConnectionPoints"}) \o KidsOf(d, n, {"Association"})
        s1 == DefaultPass(d, "ctl", n, subs, st)
    IN  OwnPass(d, n, "ctl", s1, Built(s1.ps[n]), skip_pass("control", "Nozzle"),
                NozzleCtlLoop(d, n, KidsOf(d, n, {"Association"}), 1, s1))

\* subequipment objects added to the new equipment object, in order; the
\* ValueError of add_by_inferring_type leaves the method
RECURSIVE AddSubequipment(_, _, _, _)
AddSubequipment(st, items, i, owner) ==
    IF i > Len(items) \/ st.exc # NoExc THEN st
    ELSE AddSubequipment(Stored(st, add_by_inferring_type(st.heap, items[i], owner),
                                Raise(st, ValueError)),
                         items, i + 1, owner)

\* EquipmentParser.compositional_pass
EquipmentParser_compositional_pass(d, n, st) ==
    LET e == d.els[n]
        s1 == [st EXCEPT !.ps[n].pid = e.id]
        MyClass == IF e.cc \in EquipmentClasses THEN e.cc ELSE "CustomEquipment"
        s2 == IF e.cc \in EquipmentClasses THEN s1
              ELSE register_error(d, n, s1, Msg("invalid class", "Equipment", e.cc, ""),
                                  "WARNING", NoId, NoExc)
        a == RunAll(d, "comp", KidsOf(d, n, {"Nozzle"}), s2)
        b == RunAll(d, "comp", KidsOf(d, n, {"Equipment"}), a.st)
        c == RunAll(d, "comp", KidsOf(d, n, {"Association"}), b.st)
    IN  IF e.id = NoId
        THEN Return(register_template(d, n, s1, id_not_found("Equipment")), NoObj)
        ELSE IF e.cc = NoId THEN Raise(s1, TypeError)
        ELSE Registered(
                 Kept(AddSubequipment(Create(d, n, c.st, MyClass,
                                             IF e.cc \in EquipmentClasses
                                             THEN [nozzles |-> filter_none(a.rets)]
                                             ELSE [nozzles |-> filter_none(a.rets),
                                                   typeName |-> e.cc]),
                                      b.rets, 1, n), n),
                 e.id, n)

EquipmentSubmodules(d, n) ==
    KidsOf(d, n, {"Nozzle"}) \o KidsOf(d, n, {"Equipment"}) \o KidsOf(d, n, {"Association"})

\* the association added to the associated object because the equipment did
\* not take it (bwd = [ok, heap, field])
AddedInReverse(d, n, st, aid, bwd) ==
    IF bwd.ok
    THEN register_error(d, n, [st EXCEPT !.heap = bwd.heap],
                        Msg("reverse order", "Equipment", aid, ""), "INFO", NoId, NoExc)
    ELSE register_error(d, n, st, Msg("assoc_adding_error", "Equipment", aid, ""),
                        "ERROR", NoId, ValueError)

\* the loop over the associations in EquipmentParser.reference_pass
RECURSIVE EquipmentRefLoop(_, _, _, _, _)
EquipmentRefLoop(d, n, ks, i, st) ==
    IF i > Len(ks) \/ st.exc # NoExc THEN st
    ELSE LET p == st.ps[ks[i]]
             me == st.ps[n].obj
         IN  EquipmentRefLoop(d, n, ks, i + 1,
                 IF ~is_valid(p)
                 THEN register_error(d, n, st, get_error_message(p), "ERROR", NoId, NoExc)
                 ELSE IF p.assocType = "is the location of"
                         /\ ClsOf(st.heap, p.refItem) # "Nozzle"
                 THEN Stored(st, add_by_inferring_type(st.heap, p.refItem, me),
                             AddedInReverse(d, n, st, p.assocId,
                                            add_by_inferring_type(st.heap, me, p.refItem)))
                 ELSE IF p.assocType \in {"is the location of", "is located in"} THEN st
                 ELSE register_template(d, n, st, inval_assoc_type("Equipment", p.assocType)))

\* EquipmentParser.reference_pass
EquipmentParser_reference_pass(d, n, st) ==
    LET s1 == DefaultPass(d, "ref", n, EquipmentSubmodules(d, n), st)
    IN  OwnPass(d, n, "ref", s1, Built(s1.ps[n]), skip_pass("reference", "Equipment"),
                EquipmentRefLoop(d, n, KidsOf(d, n, {"Association"}), 1, s1))

\* the loop over the associations in EquipmentParser.control_pass
RECURSIVE EquipmentCtlLoop(_, _, _, _, _)
EquipmentCtlLoop(d, n, ks, i, st) ==
    IF i > Len(ks) \/ st.exc # NoExc THEN st
    ELSE LET p == st.ps[ks[i]]
             me == st.ps[n].obj
         IN  EquipmentCtlLoop(d, n, ks, i + 1,
                 IF ~is_valid(p)
                 THEN register_error(d, n, st, get_error_message(p), "ERROR", NoId, NoExc)
                 ELSE IF p.assocType = "is located in"
                         /\ ~is_associated_with(st.heap, me, p.refItem)
                         /\ ~is_associated_with(st.heap, p.refItem, me)
                 THEN RepairBothWays(d, n, st, "Equipment", me, p.refItem, p.assocId, TRUE)
                 ELSE st)

\* EquipmentParser.control_pass
EquipmentParser_control_pass(d, n, st) ==
    LET s1 == DefaultPass(d, "ctl", n, EquipmentSubmodules(d, n), st)
    IN  OwnPass(d, n, "ctl", s1, Built(s1.ps[n]), skip_pass("control", "Equipment"),
                EquipmentCtlLoop(d, n, KidsOf(d, n, {"Association"}), 1, s1))

\* Python's l[i - 1] for a 1-based index attribute i: [ok, v]; ok = FALSE
\* is the IndexError
PyItem(l, i) ==
    IF i >= 1 /\ i <= Len(l) THEN [ok |-> TRUE, v |-> l[i]]
    ELSE IF i < 1 /\ Len(l) + i >= 1 THEN [ok |-> TRUE, v |-> l[Len(l) + i]]
    ELSE [ok |-> FALSE, v |-> NoObj]

\* the main inflow (outflow) node taken from one connection point parser,
\* not reached with an exception in flight; field is "mainIn" or "mainOut",
\* idx the index the parser holds
TakeFlowNode(d, n, st, field, idx, piping_nodes) ==
    IF st.exc # NoExc \/ idx = NoIdx THEN st
    ELSE IF st.ps[n][field] # NoObj
    THEN register_error(d, n, st, Msg("multiple flow nodes", field, "", ""),
                        "ERROR", st.ps[n].pid, NoExc)
    ELSE IF idx > Len(piping_nodes)
    THEN register_error(d, n, st, Msg("flow index out of bounds", field, "", ""),
                        "ERROR", st.ps[n].pid, NoExc)
    ELSE IF PyItem(piping_nodes, idx).ok
    THEN [st EXCEPT !.ps[n][field] = PyItem(piping_nodes, idx).v]
    ELSE Raise(st, DataError)

\* one turn of the loop over the connection point parsers: the parser cp
\* returned in state r, and piping_nodes are the nodes so far
FlowNodes(d, n, r, cp, piping_nodes) ==
    IF r.exc # NoExc THEN r
    ELSE IF cp.flowIn = Unparsed \/ cp.flowOut = Unparsed
    THEN Raise(r, InternalParserError)
    ELSE TakeFlowNode(d, n, TakeFlowNode(d, n, r, "mainIn", cp.flowIn, piping_nodes),
                      "mainOut", cp.flowOut, piping_nodes)

\* the loop over the connection point parsers in
\* PipingComponentParser.compositional_pass: the state and the nodes so far
RECURSIVE ComponentPoints(_, _, _, _, _)
ComponentPoints(d, n, ks, i, acc) ==
    IF i > Len(ks) \/ acc.st.exc # NoExc THEN acc
    ELSE LET r == Run(d, "comp", ks[i], acc.st)
             piping_nodes == acc.nodes \o (IF r.ret # NoObj THEN r.rlist ELSE <<>>)
         IN  ComponentPoints(d, n, ks, i + 1,
                 [st |-> FlowNodes(d, n, r, r.ps[ks[i]], piping_nodes),
                  nodes |-> piping_nodes])

\* self.piping_nodes = the nodes collected, for a component that was built
KeptNodes(st, n, nodes) == IF st.exc # NoExc THEN st ELSE [st EXCEPT !.ps[n].nodes = nodes]

\* PipingComponentParser.compositional_pass once the loop over the connection
\* point parsers ended in a; the object is made from the generic attributes
\* and the nodes only (the kwargs that hold typeName are not handed on)
ComponentBuilt(d, n, cls, a) ==
    Registered(
        Kept(KeptNodes(Create(d, n,
                              RunAll(d, "comp", KidsOf(d, n, {"Association"}), a.st).st,
                              cls, [nodes |-> a.nodes]),
                       n, a.nodes), n),
        d.els[n].id, n)

\* PipingComponentParser.compositional_pass
PipingComponentParser_compositional_pass(d, n, st) ==
    LET e == d.els[n]
        s1 == [st EXCEPT !.ps[n].pid = e.id]
        known == e.cc \in ItemClasses
    IN  IF e.id = NoId
        THEN Return(register_template(d, n, s1, id_not_found("PipingComponent")), NoObj)
        ELSE IF e.cc = NoId THEN Raise(s1, TypeError)
        ELSE ComponentBuilt(d, n, IF known THEN e.cc ELSE "CustomPipingComponent",
                 ComponentPoints(d, n, KidsOf(d, n, {"ConnectionPoints"}), 1,
                     [st |-> IF known THEN s1
                             ELSE register_error(d, n, s1,
                                      Msg("invalid class", "PipingComponent", e.cc, ""),
                                      "WARNING", NoId, NoExc),
                      nodes |-> <<>>]))

\* return r, not reached with an exception in flight
Returned(st, r) == IF st.exc # NoExc THEN st ELSE Return(st, r)

\* OffPageConnectorReferenceParser.compositional_pass; the documents modelled
\* carry no GenericAttributes block
OffPageConnectorReferenceParser_compositional_pass(d, n, st) ==
    LET e == d.els[n]
        s1 == [st EXCEPT !.ps[n].pid = e.id]
    IN  IF e.id = NoId
        THEN Return(register_template(d, n, s1, id_not_found("OffPageConnectorReference")),
                    NoObj)
        ELSE IF e.cc = NoId THEN Raise(s1, TypeError)
        ELSE IF e.cc \notin ReferenceClasses
        THEN Return(register_error(d, n, s1,
                                   Msg("unknown ComponentClass", "OffPageConnectorReference",
                                       e.cc, ""),
                                   "ERROR", NoId, NoExc), NoObj)
        ELSE Registered(
                 Kept(Create(d, n, RunAll(d, "comp", KidsOf(d, n, {"Association"}), s1).st,
                             e.cc, <<>>), n),
                 e.id, n)

\* parsing_utils.ErrorTemplates.assoc_adding_error
assoc_adding_error(name, aid) == Tmpl("assoc_adding_error", name, aid, "", "ERROR")

\* the loop over the associations of an object reference in
\* OffPageConnectorReferenceParser.reference_pass
RECURSIVE ReferenceLoop(_, _, _, _, _)
ReferenceLoop(d, n, ks, i, st) ==
    IF i > Len(ks) \/ st.exc # NoExc THEN st
    ELSE LET p == st.ps[ks[i]]
         IN  ReferenceLoop(d, n, ks, i + 1,
                 IF ~is_valid(p)
                 THEN register_error(d, n, st, get_error_message(p), "ERROR", NoId, NoExc)
                 ELSE IF p.assocType # "refers to"
                 THEN register_template(d, n, st,
                          inval_assoc_type("OffPageConnectorReference", p.assocType))
                 ELSE Stored(st,
                             Assign(st.heap, st.ps[n].obj, "referencedConnector", p.refItem),
                             register_error(d, n, st,
                                 assoc_adding_error("OffPageConnectorReference", p.assocId).msg,
                                 "ERROR", NoId, DataError)))

\* a reference pass that takes every reference for one by number
ReferencesResolved_ByNumber(d, n, ks, st) ==
    IF ks # <<>>
    THEN register_error(d, n, st,
                        Msg("associations not allowed", "OffPageConnectorReference", "", ""),
                        "WARNING", NoId, NoExc)
    ELSE st

\* the work of OffPageConnectorReferenceParser.reference_pass on a reference
\* that was built: by object, or by number
ReferencesResolved(d, n, ks, st) ==
    IF ClsOf(st.heap, st.ps[n].obj) = "PipeOffPageConnectorObjectReference"
    THEN ReferenceLoop(d, n, ks, 1, st)
    ELSE IF ks # <<>>
    THEN register_error(d, n, st,
                        Msg("associations not allowed", "OffPageConnectorReference", "", ""),
                        "WARNING", NoId, NoExc)
    ELSE st

\* OffPageConnectorReferenceParser.reference_pass
OffPageConnectorReferenceParser_reference_pass(d, n, st) ==
    LET s1 == DefaultPass(d, "ref", n, KidsOf(d, n, {"Association"}), st)
    IN  OwnPass(d, n, "ref", s1, Built(s1.ps[n]),
                skip_pass("reference", "OffPageConnectorReference"),
                ReferencesResolved(d, n, KidsOf(d, n, {"Association"}), s1))

\* the loop over the reference parsers in
\* PipeOffPageConnectorParser.compositional_pass, left at the first reference
\* that was built
RECURSIVE ConnectorReferences(_, _, _, _, _)

\* one turn of that loop: the reference parser ks[i] returned in state r
ReferenceTaken(d, n, ks, i, r) ==
    IF r.exc # NoExc THEN r
    ELSE IF r.ret = NoObj THEN ConnectorReferences(d, n, ks, i + 1, r)
    ELSE Stored(r, Assign(r.heap, n, "connectorReference", r.ret), Raise(r, DataError))

ConnectorReferences(d, n, ks, i, st) ==
    IF i > Len(ks) \/ st.exc # NoExc THEN st
    ELSE ReferenceTaken(d, n, ks, i, Run(d, "comp", ks[i], st))

\* PipeOffPageConnectorParser.compositional_pass once the method of the
\* parent class returned in s1
ConnectorBuilt(d, n, ks, s1) ==
    IF s1.exc # NoExc \/ s1.ret = NoObj THEN s1
    ELSE Returned(ConnectorReferences(d, n, ks, 1,
                      IF Len(ks) > 1
                      THEN register_error(d, n, s1,
                               Msg("multiple references", "PipeOffPageConnectorReference",
                                   "", ""),
                               "WARNING", NoId, NoExc)
                      ELSE s1),
                  n)

\* PipeOffPageConnectorParser.compositional_pass: the decorated method of the
\* parent class, called through super(), then the references
PipeOffPageConnectorParser_compositional_pass(d, n, st) ==
    ConnectorBuilt(d, n, KidsOf(d, n, {"PipeOffPageConnectorReference"}),
        redirect_errors_to_registry(d, n, "comp",
                                    PipingComponentParser_compositional_pass(d, n, st)))

\* the loop over the associations in the control pass of the piping
\* component, segment and actuating system parsers: an association of a type
\* in types that the associated object does not reflect is added to it
RECURSIVE RepairLoop(_, _, _, _, _, _, _, _)
RepairLoop(d, n, ks, i, st, name, types, strict) ==
    IF i > Len(ks) \/ st.exc # NoExc THEN st
    ELSE LET p == st.ps[ks[i]]
             me == st.ps[n].obj
         IN  RepairLoop(d, n, ks, i + 1,
                 IF ~is_valid(p)
                 THEN register_error(d, n, st, get_error_message(p), "ERROR", NoId, NoExc)
                 ELSE IF p.assocType \notin types
                 THEN IF strict
                      THEN register_template(d, n, st, inval_assoc_type(name, p.assocType))
                      ELSE register_error(d, n, st,
                                          Msg("not permitted", name, p.assocType, ""),
                                          "WARNING", NoId, NoExc)
                 ELSE IF is_associated_with(st.heap, me, p.refItem) THEN st
                 ELSE AddedForward(d, n,
                                   register_template(d, n, st, no_assoc_ctrl(name, p.assocId)),
                                   name, p.assocId,
                                   add_by_inferring_type(st.heap, me, p.refItem)),
                 name, types, strict)

ComponentSubmodules(d, n) ==
    KidsOf(d, n, {"ConnectionPoints"}) \o KidsOf(d, n, {"Association"})
    \o KidsOf(d, n, {"PipeOffPageConnectorReference"})

\* PipingComponentParser.control_pass
PipingComponentParser_control_pass(d, n, st) ==
    LET s1 == DefaultPass(d, "ctl", n, ComponentSubmodules(d, n), st)
    IN  OwnPass(d, n, "ctl", s1, Built(s1.ps[n]), skip_pass("control", "PipingComponent"),
                RepairLoop(d, n, KidsOf(d, n, {"Association"}), 1, s1,
                           "PipingComponent", {"is the location of", "is referenced by"},
                           FALSE))

\* PipingComponentParser.get_main_inflow_node / get_main_outflow_node
get_main_inflow_node(p) ==
    IF p.mainIn # NoObj THEN p.mainIn
    ELSE IF Len(p.nodes) > 0 THEN p.nodes[1] ELSE NoObj

get_main_outflow_node(p) ==
    IF p.mainOut # NoObj THEN p.mainOut
    ELSE IF Len(p.nodes) > 1 THEN p.nodes[2] ELSE NoObj

\* CenterLineParser.compositional_pass
CenterLineParser_compositional_pass(d, n, st) == Create(d, n, st, "Pipe", <<>>)

\* the reference of the DirectPipingConnection inserted before the item of
\* element k
DCRef(k) == 0 - k

\* dict[key] = v and dict.get(key)
Put(m, key, v) == [x \in DOMAIN m \cup {key} |-> IF x = key THEN v ELSE m[x]]
Lookup(m, key) == IF key \in DOMAIN m THEN m[key] ELSE NoObj

\* a direct connection before every item but the first
InfersDirect_AnyItem(isItem, last) == isItem

\* the test of PipingNetworkSegmentParser.compositional_pass that infers a
\* direct piping connection: the parser is an item parser and so was the last
InfersDirect(isItem, last) == isItem /\ last

\* a turn of that loop that files the main inflow node of an item as its
\* outflow node and the outflow node as its inflow node
SegmentElement_Swapped(n, k, r, isItem, direct) ==
    LET s1 == IF direct
              THEN [r EXCEPT !.heap = Put(@, DCRef(k), NewObj("DirectPipingConnection", <<>>)),
                             !.ps[n].elems = Append(@, DCRef(k))]
              ELSE r
    IN  IF isItem /\ r.ret # NoObj
        THEN [s1 EXCEPT
                !.ps[n].inMap = Put(@, r.ret, get_main_outflow_node(r.ps[k])),
                !.ps[n].outMap = Put(@, r.ret, get_main_inflow_node(r.ps[k])),
                !.ps[n].elems = Append(@, r.ret)]
        ELSE [s1 EXCEPT !.ps[n].elems = Append(@, r.ret)]

\* one turn of the loop over the ordered element parsers: the parser of
\* element k returned in state r
SegmentElement(n, k, r, isItem, direct) ==
    LET s1 == IF direct
              THEN [r EXCEPT !.heap = Put(@, DCRef(k), NewObj("DirectPipingConnection", <<>>)),
                             !.ps[n].elems = Append(@, DCRef(k))]
              ELSE r
    IN  IF isItem /\ r.ret # NoObj
        THEN [s1 EXCEPT
                !.ps[n].inMap = Put(@, r.ret, get_main_inflow_node(r.ps[k])),
                !.ps[n].outMap = Put(@, r.ret, get_main_outflow_node(r.ps[k])),
                !.ps[n].elems = Append(@, r.ret)]
        ELSE [s1 EXCEPT !.ps[n].elems = Append(@, r.ret)]

\* the loop over the ordered element parsers in
\* PipingNetworkSegmentParser.compositional_pass
RECURSIVE SegmentElements(_, _, _, _, _)
SegmentElements(d, n, ks, i, acc) ==
    IF i > Len(ks) \/ acc.st.exc # NoExc THEN acc
    ELSE LET k == ks[i]
             r == Run(d, "comp", k, acc.st)
             isItem == k \in Range(r.ps[n].itemPs)
             direct == InfersDirect(isItem, acc.last)
             conns1 == IF direct THEN Append(acc.conns, DCRef(k)) ELSE acc.conns
         IN  IF r.exc # NoExc THEN [acc EXCEPT !.st = r]
             ELSE SegmentElements(d, n, ks, i + 1,
                    [st |-> SegmentElement(n, k, r, isItem, direct),
                     items |-> IF isItem THEN Append(acc.items, r.ret) ELSE acc.items,
                     conns |-> IF isItem THEN conns1 ELSE Append(conns1, r.ret),
                     last |-> isItem])

\* PipingNetworkSegmentParser.compositional_pass once the loop over the
\* element parsers ended in a
SegmentBuilt(d, n, a) ==
    Registered(
        Kept(Create(d, n, RunAll(d, "comp", KidsOf(d, n, {"Association"}), a.st).st,
                    "PipingNetworkSegment",
                    [items |-> filter_none(a.items),
                     connections |-> filter_none(a.conns)]), n),
        d.els[n].id, n)

\* PipingNetworkSegmentParser.compositional_pass
PipingNetworkSegmentParser_compositional_pass(d, n, st) ==
    LET s1 == [st EXCEPT !.ps[n].pid = d.els[n].id]
    IN  IF d.els[n].id = NoId
        THEN Return(register_template(d, n, s1, id_not_found("PipingNetworkSegment")), NoObj)
        ELSE SegmentBuilt(d, n,
                 SegmentElements(d, n, st.ps[n].ordered, 1,
                     [st |-> [s1 EXCEPT !.ps[n].parsed = TRUE, !.ps[n].elems = <<>>],
                      items |-> <<>>, conns |-> <<>>, last |-> FALSE]))

\* assignment to a singular field of object r in state st
SetField(st, r, f, v) == [st EXCEPT !.heap = Set(@, r, f, v)]

\* assignment that the validation of the domain class may reject
TrySetField(st, r, f, v) ==
    IF Assign(st.heap, r, f, v).ok THEN SetField(st, r, f, v) ELSE Raise(st, DataError)

IsConnection(h, r) == ClsOf(h, r) \in ConnectionClasses
IsItem(h, r) == ClsOf(h, r) \in ItemClasses

\* a reversal test that looks at the target only
_infer_is_reversed_TargetOnly(st, n) ==
    LET p == st.ps[n]
    IN  p.parsed /\ get_object(st, p.toId) = p.elems[1]

\* a reversal test that looks at the source only
_infer_is_reversed_SourceOnly(st, n) ==
    LET p == st.ps[n]
    IN  p.parsed /\ get_object(st, p.fromId) = p.elems[Len(p.elems)]

\* PipingNetworkSegmentParser._infer_is_reversed, for a parser whose
\* pns_elements is not empty
_infer_is_reversed(st, n) ==
    LET p == st.ps[n]
        source_obj == get_object(st, p.fromId)
        target_obj == get_object(st, p.toId)
    IN  IF ~p.parsed THEN FALSE
        ELSE source_obj = p.elems[Len(p.elems)] \/ target_obj = p.elems[1]

\* the six in-place reversals of the reference pass
ReverseSegment(st, n) ==
    [st EXCEPT !.heap[st.ps[n].obj].val.items = Reverse(@),
               !.heap[st.ps[n].obj].val.connections = Reverse(@),
               !.ps[n].itemPs = Reverse(@),
               !.ps[n].clinePs = Reverse(@),
               !.ps[n].ordered = Reverse(@),
               !.ps[n].elems = Reverse(@)]

\* the loop of the reference pass that gives every connection its source and
\* target among the neighbouring elements
RECURSIVE ConnectNeighbours(_, _, _)
ConnectNeighbours(st, n, i) ==
    LET p == st.ps[n]
        els == p.elems
        s1 == IF i > 1 /\ IsItem(st.heap, els[i - 1])
              THEN SetField(SetField(st, els[i], "sourceItem", els[i - 1]),
                            els[i], "sourceNode", Lookup(p.outMap, els[i - 1]))
              ELSE st
        s2 == IF i < Len(els) /\ IsItem(st.heap, els[i + 1])
              THEN SetField(SetField(s1, els[i], "targetItem", els[i + 1]),
                            els[i], "targetNode", Lookup(p.inMap, els[i + 1]))
              ELSE s1
    IN  IF i > Len(els) THEN st
        ELSE IF IsConnection(st.heap, els[i]) THEN ConnectNeighbours(s2, n, i + 1)
        ELSE ConnectNeighbours(st, n, i + 1)

\* the field of the end, its node field and the element at the end
EndItem(side) == IF side = "source" THEN "sourceItem" ELSE "targetItem"
EndNode(side) == IF side = "source" THEN "sourceNode" ELSE "targetNode"
EndElement(p, side) == IF side = "source" THEN p.elems[1] ELSE p.elems[Len(p.elems)]

\* the end given to the segment in s1 handed on to the connection at the end
EndHandedOn(s1, n, side) ==
    LET seg == s1.ps[n].obj
        el == EndElement(s1.ps[n], side)
    IN  IF s1.exc = NoExc /\ IsConnection(s1.heap, el)
        THEN SetField(SetField(s1, el, EndItem(side), Get(s1.heap, seg, EndItem(side))),
                      el, EndNode(side), Get(s1.heap, seg, EndNode(side)))
        ELSE s1

\* the end that is still unset inferred from the element at the end, when
\* its parser is an item parser
EndInferred(s3, n, side) ==
    LET p == s3.ps[n]
        el == EndElement(p, side)
        parser == IF side = "source" THEN p.ordered[1] ELSE p.ordered[Len(p.ordered)]
        s4 == SetField(s3, p.obj, EndItem(side), el)
    IN  IF s3.exc = NoExc /\ Get(s3.heap, p.obj, EndItem(side)) = NoObj
           /\ Len(p.ordered) > 0 /\ parser \in Range(p.itemPs)
        THEN IF el = NoObj THEN Raise(s4, DataError)
             ELSE SetField(s4, p.obj, EndNode(side),
                           Lookup(IF side = "source" THEN p.inMap ELSE p.outMap, el))
        ELSE s3

\* self.pn_segment.sourceNode = self.pn_segment.sourceItem.nodes[index]
\* (targetNode likewise) when the parser kept an index for the end; an end
\* item that is None or has no nodes, or an index out of range, raises
EndNodeTaken(s1, n, side) ==
    LET idx == IF side = "source" THEN s1.ps[n].fromNode ELSE s1.ps[n].toNode
        item == Get(s1.heap, s1.ps[n].obj, EndItem(side))
        nodes == IF item # NoObj /\ "nodes" \in DOMAIN s1.heap[item].val
                 THEN s1.heap[item].val.nodes ELSE <<>>
        at == PyItem(nodes, idx + 1)
    IN  IF s1.exc # NoExc \/ idx = NoIdx THEN s1
        ELSE IF item = NoObj \/ "nodes" \notin DOMAIN s1.heap[item].val
        THEN Raise(s1, DataError)
        ELSE IF ~at.ok THEN Raise(s1, DataError)
        ELSE SetField(s1, s1.ps[n].obj, EndNode(side), at.v)

\* the external source (side = "source") or target (side = "target") of the
\* segment: the object registered under FromID (ToID), else the first (last)
\* element when its parser is an item parser; not reached with an exception
\* in flight
SegmentEnd(st, n, side) ==
    LET extId == IF side = "source" THEN st.ps[n].fromId ELSE st.ps[n].toId
    IN  IF st.exc # NoExc \/ extId = NoId THEN EndInferred(st, n, side)
        ELSE EndInferred(
                 EndHandedOn(EndNodeTaken(TrySetField(st, st.ps[n].obj, EndItem(side),
                                                      get_object(st, extId)), n, side),
                             n, side),
                 n, side)

SegmentSubmodules(d, n) ==
    KidsOf(d, n, ItemTags \cup {"CenterLine"}) \o KidsOf(d, n, {"Association"})

\* the work of PipingNetworkSegmentParser.reference_pass on its own segment
SegmentEnds(s1, n) ==
    IF Len(s1.ps[n].elems) = 0 THEN Raise(s1, DataError)
    ELSE SegmentEnd(
             SegmentEnd(
                 ConnectNeighbours(IF _infer_is_reversed(s1, n) THEN ReverseSegment(s1, n)
                                   ELSE s1, n, 1),
                 n, "source"),
             n, "target")

\* PipingNetworkSegmentParser.reference_pass
PipingNetworkSegmentParser_reference_pass(d, n, st) ==
    LET s1 == DefaultPass(d, "ref", n, SegmentSubmodules(d, n), st)
    IN  OwnPass(d, n, "ref", s1, s1.ps[n].pid # NoId /\ s1.ps[n].obj # NoObj,
                skip_pass("reference", "PipingNetworkSegment"), SegmentEnds(s1, n))

\* PipingNetworkSegmentParser.control_pass
PipingNetworkSegmentParser_control_pass(d, n, st) ==
    LET s1 == DefaultPass(d, "ctl", n, SegmentSubmodules(d, n), st)
    IN  OwnPass(d, n, "ctl", s1, Built(s1.ps[n]),
                skip_pass("control", "PipingNetworkSegment"),
                RepairLoop(d, n, KidsOf(d, n, {"Association"}), 1, s1,
                           "PipingNetworkSegment", {"is the location of"}, FALSE))

\* the loop over the segment parsers in PipingNetworkSystemParser.compositional_pass
RECURSIVE SystemSegments(_, _, _, _, _)
SystemSegments(d, n, ks, i, acc) ==
    IF i > Len(ks) \/ acc.st.exc # NoExc THEN acc
    ELSE LET r == Run(d, "comp", ks[i], acc.st)
             s1 == [r EXCEPT !.ps[n].segIds = Append(@, r.ps[ks[i]].pid)]
         IN  IF r.exc # NoExc THEN [acc EXCEPT !.st = r]
             ELSE SystemSegments(d, n, ks, i + 1,
                    [st |-> s1,
                     segments |-> IF r.ret # NoObj THEN Append(acc.segments, r.ret)
                                  ELSE acc.segments])

\* PipingNetworkSystemParser.compositional_pass
PipingNetworkSystemParser_compositional_pass(d, n, st) ==
    LET s1 == [st EXCEPT !.ps[n].pid = d.els[n].id]
        a == SystemSegments(d, n, KidsOf(d, n, {"PipingNetworkSegment"}), 1,
                            [st |-> s1, segments |-> <<>>])
    IN  IF d.els[n].id = NoId
        THEN Return(register_template(d, n, s1, id_not_found("PipingNetworkSystem")), NoObj)
        ELSE Registered(Kept(Create(d, n, a.st, "PipingNetworkSystem",
                                    [segments |-> a.segments]), n),
                        d.els[n].id, n)

\* list.index(x), counted from 0; NoIdx stands for the ValueError
IndexOf(l, x) ==
    IF x \in Range(l) THEN (CHOOSE i \in 1..Len(l) : l[i] = x /\ \A j \in 1..(i - 1) : l[j] # x) - 1
    ELSE NoIdx

\* piping_toolkit.connect_piping_network_segment: the item becomes the
\* source (as_source) or target of the segment, with its node of that index
\* or with no node
connect_piping_network_segment(st, segment, item, connector_node_index, as_source) ==
    LET side == IF as_source THEN "source" ELSE "target"
    IN  SetField(SetField(st, segment, EndItem(side), item), segment, EndNode(side),
                 IF connector_node_index = NoIdx THEN NoObj
                 ELSE PyItem(st.heap[item].val.nodes, connector_node_index + 1).v)

\* one of the two branches of a turn of the loop in
\* PipingNetworkSystemParser.reference_pass: segment, entry i of segment_ids,
\* takes the target item of the segment before it (as_source) or the source
\* item of the segment behind it, entry j, when that item is one of the
\* items of that segment
LinkInferred(d, n, st, i, j, segment, as_source) ==
    LET other == get_object(st, st.ps[n].segIds[j])
        side == IF as_source THEN "target" ELSE "source"
        item == Get(st.heap, other, EndItem(side))
        node == Get(st.heap, other, EndNode(side))
        idx == IF node = NoObj THEN NoIdx ELSE IndexOf(st.heap[item].val.nodes, node)
    IN  IF st.exc # NoExc \/ st.ps[n].segIds[j] = NoId \/ other = NoObj THEN st
        ELSE IF "targetItem" \notin FieldNames(ClsOf(st.heap, other))
        THEN Raise(st, DataError)
        ELSE IF item = NoObj \/ item \notin Range(st.heap[other].val.items) THEN st
        ELSE IF node # NoObj /\ idx = NoIdx THEN Raise(st, ValueError)
        ELSE register_error(d, n,
                 connect_piping_network_segment(st, segment, item, idx, as_source),
                 Msg("inferred connection", IF as_source THEN "previous" ELSE "next",
                     ToString(i - 1), ""),
                 "INFO", IF as_source THEN NoId ELSE st.ps[n].pid, NoExc)

\* the loop over segment_ids in PipingNetworkSystemParser.reference_pass, from
\* entry i on: the segment is fetched, its ends are read, and a missing end is
\* inferred from the segment before it and from the segment behind it
RECURSIVE SystemRefLoop(_, _, _, _)
SystemRefLoop(d, n, i, st) ==
    LET ids == st.ps[n].segIds
        segment == get_object(st, ids[i])
        has_no_source == Get(st.heap, segment, "sourceItem") = NoObj
        has_no_target == Get(st.heap, segment, "targetItem") = NoObj
        s1 == IF i > 1 /\ has_no_source
              THEN LinkInferred(d, n, st, i, i - 1, segment, TRUE) ELSE st
        s2 == IF i < Len(st.heap[st.ps[n].obj].val.segments) /\ has_no_target
              THEN LinkInferred(d, n, s1, i, i + 1, segment, FALSE) ELSE s1
    IN  IF i > Len(ids) \/ st.exc # NoExc THEN st
        ELSE IF ids[i] = NoId THEN SystemRefLoop(d, n, i + 1, st)
        ELSE IF "sourceItem" \notin FieldNames(ClsOf(st.heap, segment))
        THEN Raise(st, DataError)
        ELSE SystemRefLoop(d, n, i + 1, s2)

\* PipingNetworkSystemParser.reference_pass
PipingNetworkSystemParser_reference_pass(d, n, st) ==
    LET s1 == DefaultPass(d, "ref", n, KidsOf(d, n, {"PipingNetworkSegment"}), st)
    IN  OwnPass(d, n, "ref", s1, s1.ps[n].obj # NoObj /\ s1.ps[n].pid # NoId,
                skip_pass("reference", "PipingNetworkSystem"), SystemRefLoop(d, n, 1, s1))

\* ActuatingSystemComponentParser.compositional_pass
ActuatingSystemComponentParser_compositional_pass(d, n, st) ==
    LET e == d.els[n]
        s1 == [st EXCEPT !.ps[n].pid = e.id]
        known == e.cc \in ComponentClasses
        s2 == IF known THEN s1
              ELSE register_error(d, n, s1,
                                  Msg("invalid class", "ActuatingSystemComponent", e.cc, ""),
                                  "WARNING", NoId, NoExc)
    IN  IF e.id = NoId
        THEN Return(register_template(d, n, s1, id_not_found("ActuatingSystemComponent")),
                    NoObj)
        ELSE IF e.cc = NoId THEN Raise(s1, TypeError)
        ELSE Registered(
                 Kept(Create(d, n, RunAll(d, "comp", KidsOf(d, n, {"Association"}), s2).st,
                             IF known THEN e.cc ELSE "CustomActuatingSystemComponent",
                             IF known THEN <<>> ELSE [typeName |-> e.cc]), n),
                 e.id, n)

\* the loop over the associations in ActuatingSystemComponentParser.reference_pass
RECURSIVE ComponentRefLoop(_, _, _, _, _)
ComponentRefLoop(d, n, ks, i, st) ==
    IF i > Len(ks) \/ st.exc # NoExc THEN st
    ELSE LET p == st.ps[ks[i]]
             me == st.ps[n].obj
         IN  ComponentRefLoop(d, n, ks, i + 1,
                 IF ~is_valid(p)
                 THEN register_error(d, n, st, get_error_message(p), "ERROR", NoId, NoExc)
                 ELSE IF p.assocType = "refers to"
                         /\ ClsOf(st.heap, me) = "OperatedValveReference"
                 THEN Stored(st, Assign(st.heap, me, "valve", p.refItem),
                             register_error(d, n, st,
                                            Msg("valve", "OperatedValveReference", p.assocId, ""),
                                            "ERROR", NoId, DataError))
                 ELSE register_template(d, n, st,
                          inval_assoc_type("ActuatingSystemComponent", p.assocType)))

\* ActuatingSystemComponentParser.reference_pass
ActuatingSystemComponentParser_reference_pass(d, n, st) ==
    LET s1 == DefaultPass(d, "ref", n, KidsOf(d, n, {"Association"}), st)
    IN  OwnPass(d, n, "ref", s1, s1.ps[n].obj # NoObj /\ s1.ps[n].pid # NoId,
                skip_pass("reference", "ActuatingSystemComponent"),
                ComponentRefLoop(d, n, KidsOf(d, n, {"Association"}), 1, s1))

\* the field of the actuating system that takes a component of class cls
SlotOf(cls) ==
    CASE cls = "ControlledActuator" -> "controlledActuator"
      [] cls = "OperatedValveReference" -> "operatedValveReference"
      [] cls = "Positioner" -> "positioner"
      [] OTHER -> "customComponents"

\* one turn of the loop over the component parsers: the component c of class
\* cls was returned in state r
SystemComponent(d, n, acc, r, c, cls) ==
    IF c = NoObj THEN [acc EXCEPT !.st = r]
    ELSE IF SlotOf(cls) = "customComponents"
    THEN [st |-> r, slots |-> [acc.slots EXCEPT ![SlotOf(cls)] = Append(@, c)]]
    ELSE IF acc.slots[SlotOf(cls)] # <<>>
    THEN [acc EXCEPT !.st = register_error(d, n, r, Msg("multiple components", cls, "", ""),
                                           "ERROR", NoId, NoExc)]
    ELSE [st |-> r, slots |-> [acc.slots EXCEPT ![SlotOf(cls)] = <<c>>]]

\* the loop over the component parsers in ActuatingSystemParser.compositional_pass;
\* slots holds the actuator, valve reference, positioner and custom components
RECURSIVE SystemComponents(_, _, _, _, _)
SystemComponents(d, n, ks, i, acc) ==
    IF i > Len(ks) \/ acc.st.exc # NoExc THEN acc
    ELSE LET r == Run(d, "comp", ks[i], acc.st)
         IN  IF r.exc # NoExc THEN [acc EXCEPT !.st = r]
             ELSE SystemComponents(d, n, ks, i + 1,
                      SystemComponent(d, n, acc, r, r.ret, ClsOf(r.heap, r.ret)))

\* ActuatingSystemParser.compositional_pass
ActuatingSystemParser_compositional_pass(d, n, st) ==
    LET s1 == [st EXCEPT !.ps[n].pid = d.els[n].id]
        b == SystemComponents(d, n, KidsOf(d, n, {"ActuatingSystemComponent"}), 1,
                 [st |-> RunAll(d, "comp", KidsOf(d, n, {"Association"}), s1).st,
                  slots |-> [controlledActuator |-> <<>>, operatedValveReference |-> <<>>,
                             positioner |-> <<>>, customComponents |-> <<>>]])
    IN  IF d.els[n].id = NoId
        THEN Return(register_template(d, n, s1, id_not_found("ActuatingSystem")), NoObj)
        ELSE Registered(Kept(Create(d, n, b.st, "ActuatingSystem", b.slots), n),
                        d.els[n].id, n)

ActuatingSystemSubmodules(d, n) ==
    KidsOf(d, n, {"ActuatingSystemComponent"}) \o KidsOf(d, n, {"Association"})

\* ActuatingSystemParser.control_pass
ActuatingSystemParser_control_pass(d, n, st) ==
    LET s1 == DefaultPass(d, "ctl", n, ActuatingSystemSubmodules(d, n), st)
    IN  OwnPass(d, n, "ctl", s1, s1.ps[n].pid # NoId /\ s1.ps[n].obj # NoObj,
                skip_pass("control", "ActuatingSystem"),
                RepairLoop(d, n, KidsOf(d, n, {"Association"}), 1, s1,
                           "ActuatingSystem", {"fulfills"}, TRUE))

\* InstrumentationLoopFunctionParser.compositional_pass
InstrumentationLoopFunctionParser_compositional_pass(d, n, st) ==
    LET e == d.els[n]
        s1 == [st EXCEPT !.ps[n].pid = e.id]
    IN  IF e.id = NoId
        THEN Return(register_template(d, n, s1, id_not_found("InstrumentationLoopFunction")),
                    NoObj)
        ELSE Registered(
                 Kept(Create(d, n, RunAll(d, "comp", KidsOf(d, n, {"Association"}), s1).st,
                             "InstrumentationLoopFunction", <<>>), n),
                 e.id, n)

\* the association at ks[i] in the loop of
\* InstrumentationLoopFunctionParser.reference_pass, whose reference pass
\* ended in r: the state and the functions collected
LoopAssociation(d, n, k, r, pifs) ==
    LET p == r.ps[k]
    IN  IF r.exc # NoExc THEN [st |-> r, pifs |-> pifs]
        ELSE IF ~is_valid(p)
        THEN [st |-> register_error(d, n, r, get_error_message(p), "ERROR", NoId, NoExc),
              pifs |-> pifs]
        ELSE IF p.assocType # "is a collection including"
        THEN [st |-> register_template(d, n, r,
                         inval_assoc_type("InstrumentationLoopFunction", p.assocType)),
              pifs |-> pifs]
        ELSE IF ClsOf(r.heap, p.refItem) # "ProcessInstrumentationFunction"
        THEN [st |-> register_error(d, n, r,
                         Msg("not a function", "InstrumentationLoopFunction", p.assocId, ""),
                         "ERROR", NoId, NoExc),
              pifs |-> pifs]
        ELSE [st |-> r, pifs |-> Append(pifs, p.refItem)]

\* the loop over the associations in
\* InstrumentationLoopFunctionParser.reference_pass, which calls the
\* reference pass of each association parser itself, and the assignment of
\* the functions collected
RECURSIVE LoopRefLoop(_, _, _, _, _)
LoopRefLoop(d, n, ks, i, a) ==
    IF a.st.exc # NoExc THEN a.st
    ELSE IF i > Len(ks)
    THEN [a.st EXCEPT !.heap[a.st.ps[n].obj].val["processInstrumentationFunctions"] = a.pifs]
    ELSE LoopRefLoop(d, n, ks, i + 1,
                     LoopAssociation(d, n, ks[i], Run(d, "ref", ks[i], a.st), a.pifs))

\* InstrumentationLoopFunctionParser.reference_pass
InstrumentationLoopFunctionParser_reference_pass(d, n, st) ==
    LET s1 == DefaultPass(d, "ref", n, KidsOf(d, n, {"Association"}), st)
    IN  OwnPass(d, n, "ref", s1, s1.ps[n].obj # NoObj /\ s1.ps[n].pid # NoId,
                skip_pass("reference", "InstrumentationLoopFunction"),
                LoopRefLoop(d, n, KidsOf(d, n, {"Association"}), 1,
                            [st |-> s1, pifs |-> <<>>]))

\* the attributes of PlantInformation that are converted (split) after the
\* check of the required ones, and those only handed to the DexpiModel
ConvertedInformation == {"nodate", "notime"}

OptionalInformation == {"nosystem", "novendor", "noversion"}

\* the children of the plant model in the order PlantModelParser registers
\* and composes them
PlantModelSubmodules(d, n) ==
    KidsOf(d, n, {"Equipment"}) \o KidsOf(d, n, {"PipingNetworkSystem"})
        \o KidsOf(d, n, {"ActuatingSystem"}) \o KidsOf(d, n, {"InstrumentationLoopFunction"})

\* PlantModelParser.compositional_pass; info is the state of the
\* PlantInformation block: "ok", "missing" (no block), or the attribute the
\* block lacks: "nodate", "notime" (the conversion of the date and the time
\* fails on them), "nosystem", "novendor", "noversion" (handed on as None)
PlantModelParser_compositional_pass(d, n, st) ==
    LET info == d.els[n].info
        s0 == IF info \in OptionalInformation
              THEN register_error(d, n, st, Msg("PlantInformation", info, "", ""), "CRITICAL",
                                  NoId, NoExc)
              ELSE st
        a == RunAll(d, "comp", KidsOf(d, n, {"Equipment"}), s0)
        b == RunAll(d, "comp", KidsOf(d, n, {"PipingNetworkSystem"}), a.st)
        c == RunAll(d, "comp", KidsOf(d, n, {"ActuatingSystem"}), b.st)
        l == RunAll(d, "comp", KidsOf(d, n, {"InstrumentationLoopFunction"}), c.st)
    IN  IF info \in {"missing"} \cup ConvertedInformation
        THEN Raise(register_error(d, n, st, Msg("PlantInformation", info, "", ""), "CRITICAL",
                                  NoId, IF info = "missing" THEN ValueError ELSE NoExc),
                   IF info = "missing" THEN ValueError ELSE DataError)
        ELSE Create(d, n, l.st, "DexpiModel",
                    [taggedPlantItems |-> filter_none(a.rets),
                     pipingNetworkSystems |-> filter_none(b.rets),
                     actuatingSystems |-> filter_none(c.rets),
                     instrumentationLoopFunctions |-> filter_none(l.rets)])

(***************************************************************************)
(* Dispatch of a phase method on the class of the parser, and the error    *)
(* boundary of the methods that carry the decorator.                       *)
(***************************************************************************)
\* the phase methods that carry @redirect_errors_to_registry
Decorated(cls, ph) ==
    CASE ph = "comp" -> cls \notin {"PlantModel", "ActuatingSystemComponent"}
      [] ph = "ref" -> cls \in {"Association", "Nozzle", "Equipment", "PipingNetworkSegment",
                                "PipingNetworkSystem", "ActuatingSystemComponent",
                                "PipeOffPageConnectorReference",
                                "InstrumentationLoopFunction"}
      [] ph = "ctl" -> cls \in {"Nozzle", "Equipment", "PipingNetworkSegment",
                                "ActuatingSystem"} \cup ItemTags

\* the submodules of a parser that inherits reference_pass or control_pass
Submodules(d, n) ==
    CASE Cls(d, n) = "PlantModel" -> PlantModelSubmodules(d, n)
      [] Cls(d, n) = "PipingNetworkSystem" -> KidsOf(d, n, {"PipingNetworkSegment"})
      [] Cls(d, n) = "ActuatingSystem" -> ActuatingSystemSubmodules(d, n)
      [] Cls(d, n) = "ConnectionPoints" -> KidsOf(d, n, {"PipingNode"})
      [] Cls(d, n) \in ItemTags -> ComponentSubmodules(d, n)
      [] Cls(d, n) \in {"ActuatingSystemComponent", "PipeOffPageConnectorReference",
                        "InstrumentationLoopFunction"} ->
            KidsOf(d, n, {"Association"})
      [] OTHER -> <<>>

\* the phase method of node n's parser class, or the one it inherits
Body(d, ph, n, st) ==
    LET cls == Cls(d, n)
    IN  CASE ph = "comp" ->
              (CASE cls = "Association" -> AssociationParser_compositional_pass(d, n, st)
                 [] cls = "PipingNode" -> PipingNodeParser_compositional_pass(d, n, st)
                 [] cls = "ConnectionPoints" -> ConnectionPointParser_compositional_pass(d, n, st)
                 [] cls = "Nozzle" -> NozzleParser_compositional_pass(d, n, st)
                 [] cls = "Equipment" -> EquipmentParser_compositional_pass(d, n, st)
                 [] cls \in {"PipingComponent", "PropertyBreak"} ->
                        PipingComponentParser_compositional_pass(d, n, st)
                 [] cls = "PipeOffPageConnector" ->
                        PipeOffPageConnectorParser_compositional_pass(d, n, st)
                 [] cls = "PipeOffPageConnectorReference" ->
                        OffPageConnectorReferenceParser_compositional_pass(d, n, st)
                 [] cls = "CenterLine" -> CenterLineParser_compositional_pass(d, n, st)
                 [] cls = "PipingNetworkSegment" ->
                        PipingNetworkSegmentParser_compositional_pass(d, n, st)
                 [] cls = "PipingNetworkSystem" ->
                        PipingNetworkSystemParser_compositional_pass(d, n, st)
                 [] cls = "ActuatingSystemComponent" ->
                        ActuatingSystemComponentParser_compositional_pass(d, n, st)
                 [] cls = "ActuatingSystem" -> ActuatingSystemParser_compositional_pass(d, n, st)
                 [] cls = "InstrumentationLoopFunction" ->
                        InstrumentationLoopFunctionParser_compositional_pass(d, n, st)
                 [] cls = "PlantModel" -> PlantModelParser_compositional_pass(d, n, st))
          [] ph = "ref" ->
              (CASE cls = "Association" -> AssociationParser_reference_pass(d, n, st)
                 [] cls = "Nozzle" -> NozzleParser_reference_pass(d, n, st)
                 [] cls = "Equipment" -> EquipmentParser_reference_pass(d, n, st)
                 [] cls = "PipingNetworkSegment" ->
                        PipingNetworkSegmentParser_reference_pass(d, n, st)
                 [] cls = "PipingNetworkSystem" ->
                        PipingNetworkSystemParser_reference_pass(d, n, st)
                 [] cls = "ActuatingSystemComponent" ->
                        ActuatingSystemComponentParser_reference_pass(d, n, st)
                 [] cls = "PipeOffPageConnectorReference" ->
                        OffPageConnectorReferenceParser_reference_pass(d, n, st)
                 [] cls = "InstrumentationLoopFunction" ->
                        InstrumentationLoopFunctionParser_reference_pass(d, n, st)
                 [] OTHER -> DefaultPass(d, ph, n, Submodules(d, n), st))
          [] ph = "ctl" ->
              (CASE cls = "Nozzle" -> NozzleParser_control_pass(d, n, st)
                 [] cls = "Equipment" -> EquipmentParser_control_pass(d, n, st)
                 [] cls \in ItemTags -> PipingComponentParser_control_pass(d, n, st)
                 [] cls = "PipingNetworkSegment" ->
                        PipingNetworkSegmentParser_control_pass(d, n, st)
                 [] cls = "ActuatingSystem" -> ActuatingSystemParser_control_pass(d, n, st)
                 [] OTHER -> DefaultPass(d, ph, n, Submodules(d, n), st))

\* a phase method without error boundary
Wrapped_Bare(d, n, ph, r) == r

\* the state r in which the phase method of node n ended, seen through the
\* error boundary when the method carries the decorator
Wrapped(d, n, ph, r) ==
    IF Decorated(Cls(d, n), ph) THEN redirect_errors_to_registry(d, n, ph, r) ELSE r

\* a parser that runs its reference pass as soon as it is composed
RunPipelined(d, ph, n, st) ==
    LET r == Body(d, ph, n, Enter(st, n, ph))
        w == Exit(IF Decorated(Cls(d, n), ph) THEN redirect_errors_to_registry(d, n, ph, r)
                  ELSE r, n, ph)
        x == Exit(Body(d, "ref", n, Enter(w, n, "ref")), n, "ref")
    IN  IF ph = "comp" /\ w.exc = NoExc
        THEN [x EXCEPT !.ret = w.ret, !.rlist = w.rlist]
        ELSE w

\* a parser whose compositional pass is called a second time when the first
\* call returned
RunTwice(d, ph, n, st) ==
    LET first == Exit(Wrapped(d, n, ph, Body(d, ph, n, Enter(st, n, ph))), n, ph)
    IN  IF ph = "comp" /\ first.exc = NoExc /\ Cls(d, n) = "Equipment"
        THEN Exit(Wrapped(d, n, ph, Body(d, ph, n, Enter(first, n, ph))), n, ph)
        ELSE first

\* a call of phase method ph on the parser of node n
Run(d, ph, n, st) == Exit(Wrapped(d, n, ph, Body(d, ph, n, Enter(st, n, ph))), n, ph)

(***************************************************************************)
(* The documents loaded.                                                   *)
(***************************************************************************)
ExcKinds == {InternalParserError, DataError}

\* the (node, phase) pairs at which a phase method of the document's parsers
\* can be made to fail: a constructor call of the compositional pass, or the
\* node's own work in an overridden reference or control pass
FaultSites(d) ==
    {<<n, "comp">> : n \in {m \in Nodes(d) :
        Cls(d, m) \notin {"Unused", "ConnectionPoints"}}}
    \cup {<<n, "ref">> : n \in {m \in Nodes(d) :
        Cls(d, m) \in {"Association", "Nozzle", "Equipment", "PipingNetworkSegment",
                       "PipingNetworkSystem", "ActuatingSystemComponent",
                       "PipeOffPageConnectorReference", "InstrumentationLoopFunction"}}}
    \cup {<<n, "ctl">> : n \in {m \in Nodes(d) :
        Cls(d, m) \in {"Nozzle", "Equipment", "PipingNetworkSegment", "ActuatingSystem"}
                       \cup ItemTags}}

WithFaults(d) ==
    {[d EXCEPT !.fault = [n |-> site[1], ph |-> site[2], kind |-> k]] :
        site \in FaultSites(d), k \in ExcKinds}

BaseEqDoc ==
    EqDoc("e1", "nz", "pn", "e2", "is located in", "e2", "is located in",
          "as", "c1", "c2", "ControlledActuator", "ok", NoFault)

EqDocs ==
    {EqDoc(e1, nz, pn, "e2", "is located in", "e2", "is located in",
           as, c1, "c2", "ControlledActuator", "ok", NoFault) :
        e1 \in {"e1", NoId, EmptyId}, nz \in {"nz", NoId, EmptyId},
        pn \in {"pn", NoId}, as \in {"as", NoId}, c1 \in {"c1", NoId}}
    \cup {EqDoc("e1", "nz", "pn", aItem, aType, bItem, bType,
                "as", "c1", "c2", "ControlledActuator", "ok", NoFault) :
        aItem \in {"e2", "zz", NoId, "pn"},
        aType \in {"is located in", "is the location of", NoId},
        bItem \in {"e2", "zz", "nz"},
        bType \in {"is located in", "is the location of", "refers to"}}
    \cup {EqDoc("e1", "nz", "pn", "e2", "is located in", "e2", "is located in",
                "as", "c1", "c2", cc1, info, NoFault) :
        cc1 \in {"ControlledActuator", "Positioner", "unknown", NoId},
        info \in {"ok", "missing"} \cup ConvertedInformation \cup OptionalInformation}
    \cup WithFaults(BaseEqDoc)
    \cup WithFaults(EqDoc("e1", "nz", "pn", "zz", "is located in", "e2", "is the location of",
                          "as", "c1", "c2", "ControlledActuator", "ok", NoFault))

ItemIdNames == <<"a", "b", "c", "d", "e">>
NoFlows == [j \in 1..(MaxElems + 1) |-> <<NoIdx, NoIdx>>]

\* the sequences of length 0..n over S
RECURSIVE SeqsUpTo(_, _)
SeqsUpTo(S, n) ==
    IF n = 0 THEN {<<>>}
    ELSE SeqsUpTo(S, n - 1)
         \cup {Append(q, x) : q \in {r \in SeqsUpTo(S, n - 1) : Len(r) = n - 1}, x \in S}

SegKinds == SeqsUpTo({"PipingComponent", "CenterLine"}, MaxElems)
ShortKinds == {<<"PipingComponent">>, <<"PipingComponent", "PipingComponent">>,
               <<"CenterLine", "PipingComponent">>,
               <<"PipingComponent", "CenterLine", "PipingComponent">>,
               <<"PipingComponent", "PipingComponent", "PipingComponent">>}

SegDocs ==
    {SegDoc("s", kinds, ItemIdNames, NoFlows, fromId, toId, NoFault) :
        kinds \in SegKinds, fromId \in {NoId, "a", "b", "zz"},
        toId \in {NoId, "a", "b", "c", "x6"}}
    \cup {SegDoc(sid, kinds, ids, NoFlows, NoId, toId, NoFault) :
        sid \in {"s", NoId, EmptyId}, kinds \in ShortKinds,
        ids \in {<<"a", NoId, "c", "d", "e">>, <<NoId, "b", "c", "d", "e">>,
                 <<"a", "a", "c", "d", "e">>, <<"a", "b", "a", "d", "e">>,
                 <<"a", "b", NoId, "d", "e">>},
        toId \in {NoId, "a"}}
    \cup {SegDoc("s", kinds, ItemIdNames, [NoFlows EXCEPT ![1] = <<fi, fo>>], NoId, toId, NoFault) :
        kinds \in {<<"PipingComponent", "PipingComponent">>,
                   <<"PipeOffPageConnector", "CenterLine", "PropertyBreak">>},
        fi \in {NoIdx, 0, 1, 2, 3, Unparsed, BadIdx}, fo \in {NoIdx, 0, 1, 2, 3},
        toId \in {NoId, "a"}}
    \cup {[SegDoc("s", kinds, ItemIdNames, NoFlows, "b", toId, NoFault)
                EXCEPT !.els[SegBase].fromNode = fromNode, !.els[SegBase].toNode = toNode] :
        kinds \in {<<"CenterLine", "PipingComponent", "PipingComponent">>,
                   <<"PipingComponent", "PipingComponent", "CenterLine">>},
        fromNode \in {NoIdx, 0, 1, BadIdx}, toNode \in {NoIdx, 0, 1},
        toId \in {NoId, "b"}}
    \cup WithFaults(SegDoc("s", <<"PipingComponent", "CenterLine", "PipingComponent">>,
                           ItemIdNames, NoFlows, NoId, NoId, NoFault))
    \cup WithFaults(SegDoc("s", <<"PipingComponent", "PipingComponent">>,
                           ItemIdNames, NoFlows, NoId, "a", NoFault))

\* systems of two and of three segments, one of them without an ID, and
\* failures in a system of two segments
SysKinds == {<<"PipingComponent">>, <<"CenterLine", "PipingComponent">>,
             <<"PipingComponent", "CenterLine">>}
SysDocs ==
    {SysDoc(<<"s1", "s2">>, <<k1, k2>>, NoFault) :
        k1 \in SysKinds \cup {<<"CenterLine">>}, k2 \in SysKinds \cup {<<"CenterLine">>}}
    \cup {SysDoc(ids, <<k1, k2, k3>>, NoFault) :
        ids \in {<<"s1", "s2", "s3">>, <<NoId, "s2", "s3">>, <<"s1", NoId, "s3">>,
                 <<"s1", "s2", NoId>>},
        k1 \in SysKinds, k2 \in SysKinds, k3 \in SysKinds}
    \cup WithFaults(SysDoc(<<"s1", "s2", "s3">>,
                           <<<<"PipingComponent", "CenterLine">>,
                             <<"PipingComponent", "CenterLine">>,
                             <<"PipingComponent">>>>, NoFault))

ValveDocs ==
    {ValveDoc(pItem, pType, cc, vItem, vType, NoFault) :
        pItem \in {"ov", "x6", "zz", NoId},
        pType \in {"is referenced by", "is the location of", "refers to"},
        cc \in {"OperatedValveReference", "ControlledActuator"},
        vItem \in {"a", "zz"},
        vType \in {"refers to", "is located in"}}
    \cup WithFaults(ValveDoc("ov", "is referenced by", "OperatedValveReference",
                             "zz", "refers to", NoFault))

OpcDocs ==
    {OpcDoc(where, "r1", "PipeOffPageConnectorObjectReference", aType, aItem, FALSE, NoFault) :
        where \in {"same", "other", "none"},
        aType \in {"refers to", "is located in"},
        aItem \in {"o2", "e2", "zz", NoId}}
    \cup {OpcDoc("same", rid, rcc, "refers to", "o2", two, NoFault) :
        rid \in {"r1", NoId},
        rcc \in ReferenceClasses \cup {"unknown", NoId},
        two \in BOOLEAN}
    \cup WithFaults(OpcDoc("same", "r1", "PipeOffPageConnectorObjectReference",
                           "refers to", "o2", FALSE, NoFault))

\* documents with an equipment item, a piping component or both of a class
\* the domain packages do not know
ClassDocs ==
    {[BaseEqDoc EXCEPT !.els[2].cc = c1, !.els[3].cc = c2] :
        c1 \in {"Vessel", "unknown", "CustomEquipment"}, c2 \in {"Chamber", "unknown"}}
    \cup {[SegDoc("s", <<"PipingComponent", "PipingComponent">>, ItemIdNames, NoFlows,
                  NoId, NoId, NoFault)
              EXCEPT !.els[ElemNode(1)].cc = c1, !.els[ElemNode(2)].cc = c2] :
            c1 \in {"PipingComponent", "unknown", "CustomPipingComponent"},
            c2 \in {"PipingComponent", "unknown"}}

LoopDocs ==
    {LoopDoc(lid, aType, aItem, "is a collection including", "zz", NoFault) :
        lid \in {"l1", NoId},
        aType \in {"is a collection including", "is located in", NoId},
        aItem \in {"e1", "zz", NoId}}
    \cup WithFaults(LoopDoc("l1", "is a collection including", "e1",
                            "is a collection including", "zz", NoFault))

\* the plant of family 1 whose second equipment item carries an association
\* of its own; the nozzle of the first names e1 or e2 as its location
NozzleDocs ==
    {[EqDoc("e1", "nz", "pn", aItem, "is located in", "e2", "is located in",
            "as", "c1", "c2", "ControlledActuator", "ok", NoFault)
         EXCEPT !.els = Append(@, [Elem("Association", 3, <<>>, NoId)
                                      EXCEPT !.itemId = cItem, !.atype = cType]),
                !.els[3].kids = <<12>>] :
        aItem \in {"e1", "e2"},
        cItem \in {"nz", "e1", "zz"},
        cType \in {"is the location of", "is located in"}}

\* the plant of family 1 with two chambers e1 and e2, whose nozzle carries a
\* second association
ChamberDocs ==
    {[EqDoc("e1", "nz", "pn", aItem, "is located in", "e2", "is located in",
            "as", "c1", "c2", "ControlledActuator", "ok", NoFault)
         EXCEPT !.els = Append(@, [Elem("Association", 4, <<>>, NoId)
                                      EXCEPT !.itemId = cItem, !.atype = cType]),
                !.els[2].cc = "Chamber",
                !.els[4].kids = <<5, 7, 12>>] :
        aItem \in {"e1", "e2", "zz"},
        cItem \in {"e1", "e2", "zz"},
        cType \in {"is located in", "is the location of"}}

Docs ==
    EqDocs \cup SegDocs \cup SysDocs \cup ValveDocs \cup OpcDocs \cup ClassDocs \cup LoopDocs
    \cup NozzleDocs \cup ChamberDocs

(***************************************************************************)
(* ProteusLoader.load_xmlstring as a process.                              *)
(***************************************************************************)
Root == 1

\* the parser tree parser_factory.make_plant_model_parser builds
InitialParsers(d) ==
    [n \in Nodes(d) |->
        IF Cls(d, n) = "PipingNetworkSegment"
        THEN [NewParser EXCEPT !.ordered = KidsOf(d, n, ItemTags \cup {"CenterLine"}),
                               !.itemPs = KidsOf(d, n, ItemTags),
                               !.clinePs = KidsOf(d, n, {"CenterLine"})]
        ELSE NewParser]

\* the index _extract_connections keeps for a FromNode or ToNode attribute
\* v: int(v) in a try statement, and then the assignment of None that follows
\* the try statement in the same branch
node_index(v) ==
    LET parsed == IF v = BadIdx THEN NoIdx ELSE v
        after == NoIdx
    IN  IF v = NoIdx THEN NoIdx ELSE after

\* one of the two ERROR entries of _extract_connections for an index that
\* int() does not take
InvalidIndex(d, n, st, v, attr) ==
    IF v = BadIdx
    THEN register_error(d, n, st, Msg("invalid index", attr, "", ""), "ERROR", NoId, NoExc)
    ELSE st

\* a constructor that also reads the ID of the segment
_extract_connections_ReadingId(d, n, st) ==
    LET e == d.els[n]
    IN  [InvalidIndex(d, n, InvalidIndex(d, n, st, e.fromNode, "FromNode"),
                      e.toNode, "ToNode")
            EXCEPT !.ps[n].pid = e.id,
                   !.ps[n].fromId = e.fromId,
                   !.ps[n].toId = e.toId,
                   !.ps[n].fromNode = node_index(e.fromNode),
                   !.ps[n].toNode = node_index(e.toNode)]

\* PipingNetworkSegmentParser._extract_connections, called by __init__, on
\* a segment with at most one Connection element
_extract_connections(d, n, st) ==
    LET e == d.els[n]
    IN  [InvalidIndex(d, n, InvalidIndex(d, n, st, e.fromNode, "FromNode"),
                      e.toNode, "ToNode")
            EXCEPT !.ps[n].fromId = e.fromId,
                   !.ps[n].toId = e.toId,
                   !.ps[n].fromNode = node_index(e.fromNode),
                   !.ps[n].toNode = node_index(e.toNode)]

\* the constructors of the segment parsers of elements n.. of document d
RECURSIVE ConnectionsExtracted(_, _, _)
ConnectionsExtracted(d, n, st) ==
    IF n > Len(d.els) THEN st
    ELSE ConnectionsExtracted(d, n + 1,
             IF Cls(d, n) = "PipingNetworkSegment" THEN _extract_connections(d, n, st)
             ELSE st)

\* load_xmlstring on document d up to the construction of the parser tree,
\* from fresh registries
FreshState(d) ==
    ConnectionsExtracted(d, 1,
        [errors |-> <<>>, objects |-> <<>>, ps |-> InitialParsers(d), heap |-> <<>>,
         calls |-> <<>>, writes |-> <<>>, exc |-> NoExc, ret |-> NoObj, rlist |-> <<>>])

\* the state a pass starts in
LoadState ==
    [errors |-> errors, objects |-> objects, ps |-> ps, heap |-> heap, calls |-> calls,
     writes |-> writes, exc |-> NoExc, ret |-> NoObj, rlist |-> <<>>]

Init ==
    /\ doc = NoDoc
    /\ pc = "idle"
    /\ model = NoObj
    /\ errors = <<>>
    /\ objects = <<>>
    /\ ps = <<>>
    /\ heap = <<>>
    /\ calls = <<>>
    /\ writes = <<>>
    /\ returned = NoObj
    /\ raised = NoExc
    /\ loads = 0
    /\ call = NoCall
    /\ result = Nothing

\* a load that goes on with the registries of the load before it
NewLoad_KeepRegistries(docs) ==
    /\ pc \in {"idle", "done", "aborted"}
    /\ \E d \in docs :
        /\ doc' = d
        /\ ps' = FreshState(d).ps
        /\ errors' = errors \o FreshState(d).errors
    /\ objects' = objects
    /\ heap' = <<>>
    /\ calls' = <<>>
    /\ writes' = <<>>
    /\ model' = NoObj
    /\ returned' = NoObj
    /\ raised' = NoExc
    /\ loads' = loads + 1
    /\ pc' = "built"
    /\ UNCHANGED <<call, result>>

\* load_xmlstring of one of the documents docs up to the construction of the
\* parser tree, on a loader that is new or has ended a load:
\* self.reset_registries(), then the root context and the parser tree over
\* the new registries
NewLoad(docs) ==
    /\ pc \in {"idle", "done", "aborted"}
    /\ \E d \in docs :
        /\ doc' = d
        /\ ps' = FreshState(d).ps
        /\ errors' = FreshState(d).errors
    /\ objects' = <<>>
    /\ heap' = <<>>
    /\ calls' = <<>>
    /\ writes' = <<>>
    /\ model' = NoObj
    /\ returned' = NoObj
    /\ raised' = NoExc
    /\ loads' = loads + 1
    /\ pc' = "built"
    /\ UNCHANGED <<call, result>>

\* load_xmlstring up to the construction of the parser tree
StartLoad ==
    /\ loads < MaxLoads
    /\ NewLoad(Docs)

\* the outcome of one pass call on the root parser
Outcome(r, next, ret) ==
    /\ errors' = r.errors
    /\ objects' = r.objects
    /\ ps' = r.ps
    /\ heap' = r.heap
    /\ calls' = r.calls
    /\ writes' = r.writes
    /\ raised' = r.exc
    /\ pc' = IF r.exc # NoExc THEN "aborted" ELSE next
    /\ returned' = IF r.exc # NoExc THEN NoObj ELSE ret
    /\ UNCHANGED <<doc, loads, call, result>>

\* the outcome of the compositional pass: its value is kept as the model
Composition(r) ==
    /\ Outcome(r, "composed", NoObj)
    /\ model' = r.ret

\* depxi_model = plant_model_parser.compositional_pass()
RunCompositional ==
    /\ pc = "built"
    /\ Composition(Run(doc, "comp", Root, LoadState))

\* plant_model_parser.reference_pass()
RunReference ==
    /\ pc = "composed"
    /\ Outcome(Run(doc, "ref", Root, LoadState), "referenced", NoObj)
    /\ UNCHANGED model

\* load_xmlstring without its return statement
RunControlNoReturn ==
    /\ pc = "referenced"
    /\ Outcome(Run(doc, "ctl", Root, LoadState), "done", NoObj)
    /\ UNCHANGED model

\* plant_model_parser.control_pass(); return depxi_model
RunControl ==
    /\ pc = "referenced"
    /\ Outcome(Run(doc, "ctl", Root, LoadState), "done", model)
    /\ UNCHANGED model

Next == StartLoad \/ RunCompositional \/ RunReference \/ RunControl

Spec == Init /\ [][Next]_vars

\* a loader that is used for up to MaxReloads loads, one after the other,
\* of documents that load without a diagnostic, with diagnostics of the
\* constructors or of the passes, or that abort
MaxReloads == 2

ReloadDocs ==
    {BaseEqDoc} \cup WithFaults(BaseEqDoc) \cup NozzleDocs \cup ChamberDocs
    \cup {d \in SegDocs : \E n \in 1..Len(d.els) : d.els[n].fromNode = BadIdx}

Reload ==
    /\ loads < MaxReloads
    /\ NewLoad(ReloadDocs)

ReloadNext == Reload \/ RunCompositional \/ RunReference \/ RunControl

ReloadSpec == Init /\ [][ReloadNext]_vars

\* load_xmlstring on document d from fresh registries, up to the end of its
\* compositional pass and up to the end of its reference pass
Composed(d) == Run(d, "comp", Root, FreshState(d))
Referenced(d) ==
    LET c == Composed(d)
    IN  IF c.exc # NoExc THEN c ELSE Run(d, "ref", Root, Return(c, NoObj))
Controlled(d) ==
    LET r == Referenced(d)
    IN  IF r.exc # NoExc THEN r ELSE Run(d, "ctl", Root, Return(r, NoObj))


(***************************************************************************)
(* Properties.                                                             *)
(***************************************************************************)
Events(ph, ev) == SelectSeq(calls, LAMBDA c : c.ph = ph /\ c.ev = ev)
RootEvents(ev) == SelectSeq(calls, LAMBDA c : c.n = Root /\ c.ev = ev)
PhasesOf(s) == [i \in 1..Len(s) |-> s[i].ph]
Finished == pc \in {"done", "aborted"}

\* the value the root's compositional pass returned
RootComposed ==
    LET s == SelectSeq(calls, LAMBDA c : c.n = Root /\ c.ph = "comp" /\ c.ev = "exit")
    IN  IF Len(s) = 0 THEN NoObj ELSE s[1].ret

\* C1 (as stated): every load calls the root's compositional, reference and
\* control pass once each, in this order, and returns what the compositional
\* pass returned.
C1_EveryLoadRunsThreePasses ==
    (Finished /\ doc.fault = NoFault) =>
        /\ PhasesOf(RootEvents("enter")) = <<"comp", "ref", "ctl">>
        /\ returned # NoObj
        /\ returned = RootComposed

\* C1 (amended): a load in which no pass raises calls the three passes of the
\* root once each, in order, and returns the value of the compositional pass;
\* a load in which a pass raises ends with that exception, calls no later
\* pass and returns nothing.
C1_ThreePassesUnlessRaised ==
    /\ pc = "done" =>
        /\ PhasesOf(RootEvents("enter")) = <<"comp", "ref", "ctl">>
        /\ PhasesOf(RootEvents("exit")) = <<"comp", "ref", "ctl">>
        /\ raised = NoExc
        /\ returned # NoObj
        /\ returned = RootComposed
    /\ pc = "aborted" =>
        /\ raised # NoExc
        /\ returned = NoObj
        /\ Len(RootEvents("raise")) = 1
        /\ calls[Len(calls)] = RootEvents("raise")[1]
        /\ PhasesOf(RootEvents("enter"))
             \in {<<"comp">>, <<"comp", "ref">>, <<"comp", "ref", "ctl">>}
        /\ Len(RootEvents("exit")) = Len(RootEvents("enter")) - 1

\* a load that went through the three passes and returned the model
C1_Witness ==
    /\ pc = "done"
    /\ ClsOf(heap, returned) = "DexpiModel"
    /\ Len(calls) > 6

Rank(ph) == CASE ph = "comp" -> 1 [] ph = "ref" -> 2 [] ph = "ctl" -> 3

\* the calls of phase ph that are still running after the first j events
Running(ph, j) ==
    Cardinality({i \in 1..j : calls[i].ph = ph /\ calls[i].ev = "enter"})
    - Cardinality({i \in 1..j : calls[i].ph = ph /\ calls[i].ev # "enter"})

\* C2: within a load no call of a later pass precedes a call of an earlier
\* pass, and when a node's reference (control) pass starts no compositional
\* (reference) pass of any node is still running.
C2_PassesDoNotOverlap ==
    /\ \A i, j \in 1..Len(calls) : i < j => Rank(calls[i].ph) <= Rank(calls[j].ph)
    /\ \A j \in 1..Len(calls) :
        calls[j].ev = "enter" =>
            /\ calls[j].ph = "ref" => Running("comp", j) = 0
            /\ calls[j].ph = "ctl" => Running("comp", j) = 0 /\ Running("ref", j) = 0

\* a finished load in which several nodes ran each of the three passes
C2_Witness ==
    /\ pc = "done"
    /\ Len(Events("comp", "enter")) > 3
    /\ Len(Events("ref", "enter")) > 3
    /\ Len(Events("ctl", "enter")) > 3

InternalLogged == {i \in 1..Len(errors) : errors[i].exc = InternalParserError}
InternalRaises ==
    {i \in 1..Len(calls) : calls[i].ev = "raise" /\ calls[i].exc = InternalParserError}

\* C3: once an InternalParserError was raised in a phase method of any node,
\* every call that was running is left by that exception, no call starts or
\* returns normally afterwards, and load_xmlstring ends with the
\* InternalParserError and returns no model.
C3_InternalErrorPropagates ==
    (InternalLogged # {} \/ InternalRaises # {}) =>
        /\ pc = "aborted"
        /\ raised = InternalParserError
        /\ returned = NoObj
        /\ InternalRaises # {}
        /\ \A i \in InternalRaises : \A j \in 1..Len(calls) : j > i => j \in InternalRaises
        /\ calls[Len(calls)].n = Root
        /\ \A ph \in {"comp", "ref", "ctl"} : Running(ph, Len(calls)) = 0

\* an InternalParserError raised by a document (FlowIn="-1" on a piping
\* component) that crossed three error boundaries on its way out
C3_Witness ==
    /\ pc = "aborted"
    /\ raised = InternalParserError
    /\ doc.fault = NoFault
    /\ Cardinality(InternalLogged) >= 3
    /\ \E i \in InternalRaises : doc.els[calls[i].n].cls = "PipingComponent"

\* the nearest id of node n and its ancestors below the root
RECURSIVE NearestId(_, _)
NearestId(d, n) ==
    IF d.els[n].parent = 0 THEN NoId
    ELSE IF d.els[n].id # NoId THEN d.els[n].id
    ELSE NearestId(d, d.els[n].parent)

RECURSIVE Below(_, _, _)
Below(d, n, a) ==
    n # 0 /\ (n = a \/ Below(d, d.els[n].parent, a))

Boundary == {i \in 1..Len(errors) : errors[i].msg.kind = "parsing step"}
BoundaryAt(n, ph) ==
    {i \in Boundary : errors[i].src = n /\ errors[i].msg.who = PhaseName(ph)}
Entered(cs, ph) == {cs[i].n : i \in {j \in 1..Len(cs) : cs[j].ev = "enter" /\ cs[j].ph = ph}}
\* the calls of phase ph entered on node n in the load
EntriesOf(n, ph) ==
    {i \in 1..Len(calls) : calls[i].ev = "enter" /\ calls[i].n = n /\ calls[i].ph = ph}

PassOver(ph) ==
    \/ ph = "comp" /\ pc \in {"composed", "referenced", "done"}
    \/ ph = "ref" /\ pc \in {"referenced", "done"}
    \/ ph = "ctl" /\ pc = "done"

\* C4: an exception other than InternalParserError raised in a call of a
\* wrapped phase method leaves exactly one ERROR entry that names the method
\* and the class of the node and carries the nearest non-null id of the
\* node's id stack (null if there is none); the method returns None, the
\* load goes on, and
\* every node outside the failing one that the pass visits when nothing
\* fails is still visited.
C4_BoundaryLogsOnceAndContinues ==
    /\ \A i \in Boundary :
        /\ errors[i].level = "ERROR"
        /\ errors[i].msg.arg = Cls(doc, errors[i].src)
        /\ errors[i].id = NearestId(doc, errors[i].src)
        /\ \E ph \in {"comp", "ref", "ctl"} :
            /\ errors[i].msg.who = PhaseName(ph)
            /\ Decorated(Cls(doc, errors[i].src), ph)
            /\ errors[i].exc # InternalParserError =>
                \E j \in 1..Len(calls) :
                    /\ calls[j].n = errors[i].src /\ calls[j].ph = ph
                    /\ calls[j].ev = "exit" /\ calls[j].ret = NoObj
    /\ (/\ doc # NoDoc
        /\ doc.fault # NoFault
        /\ doc.fault.kind = DataError
        /\ Decorated(Cls(doc, doc.fault.n), doc.fault.ph)
        /\ doc.fault.n \in Entered(calls, doc.fault.ph)
        /\ PassOver(doc.fault.ph)) =>
            /\ Cardinality(BoundaryAt(doc.fault.n, doc.fault.ph))
                   = Cardinality(EntriesOf(doc.fault.n, doc.fault.ph))
            /\ \A i \in BoundaryAt(doc.fault.n, doc.fault.ph) : errors[i].exc = DataError
            /\ raised = NoExc
            /\ LET clean == [doc EXCEPT !.fault = NoFault]
                   base == CASE doc.fault.ph = "comp" -> Composed(clean)
                             [] doc.fault.ph = "ref" -> Referenced(clean)
                             [] doc.fault.ph = "ctl" -> Controlled(clean)
               IN  \A m \in Entered(base.calls, doc.fault.ph) :
                       Below(doc, m, doc.fault.n) \/ m \in Entered(calls, doc.fault.ph)

\* a reference pass of an association (an element without ID) failed below a
\* nozzle: the entry carries the nozzle's id, and the equipment's second
\* association was still visited
C4_Witness ==
    /\ pc = "done"
    /\ doc.fault # NoFault
    /\ doc.fault.kind = DataError
    /\ doc.fault.ph = "ref"
    /\ Cls(doc, doc.fault.n) = "Association"
    /\ doc.els[doc.fault.n].id = NoId
    /\ \E i \in BoundaryAt(doc.fault.n, "ref") :
        errors[i].id # NoId /\ errors[i].id = doc.els[doc.els[doc.fault.n].parent].id
    /\ \E m \in Entered(calls, "ref") :
        m # doc.fault.n /\ Cls(doc, m) = "Association"

Escapes ==
    {i \in 1..Len(calls) : calls[i].ev = "raise" /\ calls[i].exc # InternalParserError}

\* C5: every phase method is behind an error boundary, so an exception other
\* than InternalParserError never leaves the load, and when it leaves the
\* compositional pass of an element, the compositional pass of the parent
\* still returns the parent's object.
C5_FailureLosesOnlyTheElement ==
    /\ raised \in {NoExc, InternalParserError}
    /\ \A i \in Escapes :
        /\ calls[i].n # Root
        /\ calls[i].ph = "comp" =>
            \E j \in 1..Len(calls) :
                /\ j > i
                /\ calls[j].n = doc.els[calls[i].n].parent
                /\ calls[j].ph = "comp"
                /\ calls[j].ev = "exit"
                /\ calls[j].ret # NoObj

\* C5, its example: without injected faults, an ActuatingSystem that has an
\* ID is created whatever its components are
C5_ActuatingSystemSurvives ==
    (/\ pc \in {"composed", "referenced", "done"}
     /\ doc.fault = NoFault
     /\ \E n \in Nodes(doc) : Cls(doc, n) = "ActuatingSystem" /\ doc.els[n].id # NoId) =>
        \A n \in Nodes(doc) :
            (Cls(doc, n) = "ActuatingSystem" /\ doc.els[n].id # NoId) => ps[n].obj # NoObj

\* the elements whose parser requires an ID
NeedsId(d) ==
    {n \in Nodes(d) : Cls(d, n) \in {"PipingNode", "Nozzle", "Equipment", "PipingNetworkSegment",
                                     "PipingNetworkSystem", "ActuatingSystem",
                                     "ActuatingSystemComponent"} \cup ItemTags}
ComposedAs(n) ==
    {calls[i].ret : i \in {j \in 1..Len(calls) :
        calls[j].n = n /\ calls[j].ph = "comp" /\ calls[j].ev = "exit"}}
ErrorsOf(n) == {i \in 1..Len(errors) : errors[i].src = n /\ errors[i].level = "ERROR"}

C6_NoNullKey == NoId \notin DOMAIN objects /\ EmptyId \notin DOMAIN objects
C6_NoObject ==
    (pc = "composed" /\ doc.fault = NoFault) =>
        \A n \in NeedsId(doc) :
            (doc.els[n].id = NoId /\ n \in Entered(calls, "comp")) => ComposedAs(n) = {NoObj}
C6_OneError ==
    (pc = "composed" /\ doc.fault = NoFault) =>
        \A n \in NeedsId(doc) :
            (doc.els[n].id = NoId /\ n \in Entered(calls, "comp")) =>
                Cardinality(ErrorsOf(n)) = 1

\* C6: an element that needs an ID and has none gets no object in the
\* compositional pass and exactly one ERROR, and the object registry holds no
\* entry under a null or an empty id.
C6_ElementWithoutIdIsSkipped == C6_NoNullKey /\ C6_NoObject /\ C6_OneError

\* the associations of the document whose ItemID names no registered object
\* and whose owner was built
Dangling ==
    {n \in Nodes(doc) :
        /\ Cls(doc, n) = "Association"
        /\ doc.els[n].itemId # NoId
        /\ doc.els[n].atype # NoId
        /\ doc.els[n].itemId \notin DOMAIN objects
        /\ ps[doc.els[n].parent].obj # NoObj}
NotFoundErrors(n) ==
    {i \in 1..Len(errors) :
        /\ errors[i].level = "ERROR"
        /\ errors[i].src \in {n, doc.els[n].parent}
        /\ errors[i].msg = Msg("assoc", "not found", doc.els[n].itemId, "")}
AddedFor(n) ==
    {i \in 1..Len(errors) :
        /\ errors[i].src \in {n, doc.els[n].parent}
        /\ errors[i].msg.kind \in {"assoc_added_ctrl", "assoc_added_ctrl reverse"}
        /\ errors[i].msg.arg = doc.els[n].itemId}

C7_Invalid ==
    (pc = "done" /\ doc.fault = NoFault) =>
        /\ \A n \in Dangling : ~is_valid(ps[n]) /\ AddedFor(n) = {}
        /\ (Dangling # {} /\ \A n \in Nodes(doc) : Cls(doc, n) = "Association" => n \in Dangling)
            => \A n \in Dangling :
                   heap[ps[doc.els[n].parent].obj] = Composed(doc).heap[ps[doc.els[n].parent].obj]
C7_OneError ==
    (pc = "done" /\ doc.fault = NoFault) =>
        \A n \in Dangling : Cardinality(NotFoundErrors(n)) = 1

\* C7: an association whose ItemID was never registered is invalid, makes no
\* exception leave the load, adds no edge between objects, and over the
\* reference pass and the control pass together is logged as exactly one ERROR.
C7_DanglingAssociationLoggedOnce ==
    /\ C7_Invalid
    /\ C7_OneError
    /\ (doc # NoDoc /\ doc.fault = NoFault /\ pc = "aborted") =>
        ~\E n \in Nodes(doc) : Cls(doc, n) = "Association" /\ doc.els[n].itemId = "zz"

AddedInControl ==
    {i \in 1..Len(errors) :
        errors[i].msg.kind \in {"assoc_added_ctrl", "assoc_added_ctrl reverse"}}

\* C8: after a load, running the control pass of the root once more raises
\* nothing and leaves every field of every object as it is: no association
\* that the reference pass or the first control pass turned into an edge
\* gets a second edge.
C8_ControlPassIdempotent ==
    pc = "done" =>
        LET again == Run(doc, "ctl", Root, LoadState)
        IN  /\ again.exc = NoExc
            /\ again.heap = heap
            /\ \A i \in 1..Len(again.errors) :
                   i > Len(errors) =>
                       again.errors[i].msg.kind \notin {"assoc_added_ctrl",
                                                        "assoc_added_ctrl reverse"}

\* a load whose control pass added an edge to a list field for the
\* association of a nozzle or an equipment
C8_Witness ==
    /\ pc = "done"
    /\ \E i \in AddedInControl :
        /\ Cls(doc, errors[i].src) \in {"Nozzle", "Equipment"}
        /\ \E o \in DOMAIN heap :
            /\ errors[i].msg.fld \in DOMAIN heap[o].val
            /\ ps[errors[i].src].obj \in Range(heap[o].val[errors[i].msg.fld])

\* the segments of the document that the compositional pass built
BuiltSegments ==
    {n \in Nodes(doc) : Cls(doc, n) = "PipingNetworkSegment" /\ ps[n].obj # NoObj}
IsDirect(x) == x \in DOMAIN heap /\ heap[x].cls = "DirectPipingConnection"
\* the position in sequence E of its i-th entry that is no direct connection
PosOf(E, i) ==
    CHOOSE p \in 1..Len(E) :
        ~IsDirect(E[p]) /\ Cardinality({q \in 1..p : ~IsDirect(E[q])}) = i
OrderedKids(n) == KidsOf(doc, n, ItemTags \cup {"CenterLine"})
Adjacent(n, i) ==
    Cls(doc, OrderedKids(n)[i]) \in ItemTags /\ Cls(doc, OrderedKids(n)[i + 1]) \in ItemTags

ComposedSegments ==
    {n \in Nodes(doc) : /\ Cls(doc, n) = "PipingNetworkSegment"
                        /\ doc.els[n].id # NoId
                        /\ n \in Entered(calls, "comp")}

\* C9: after the compositional pass of a segment that has an ID, the element
\* sequence holds the segment's items and center lines in source order, with
\* exactly one DirectPipingConnection between two consecutive elements that
\* are both items and none anywhere else; each of these connections is a
\* distinct object, and the connection list of the segment built holds it
\* once, at its place among the center lines.
C9_OneDirectConnectionBetweenItems ==
    pc = "composed" =>
        \A n \in ComposedSegments :
            LET E == ps[n].elems
                ks == OrderedKids(n)
                plain == SelectSeq(E, LAMBDA x : ~IsDirect(x))
            IN  /\ Len(plain) = Len(ks)
                /\ \A i \in 1..Len(ks) : plain[i] \in ComposedAs(ks[i])
                /\ Len(ks) > 0 => PosOf(E, 1) = 1 /\ PosOf(E, Len(ks)) = Len(E)
                /\ \A i \in 1..(Len(ks) - 1) :
                       PosOf(E, i + 1) - PosOf(E, i) - 1 = IF Adjacent(n, i) THEN 1 ELSE 0
                /\ \A p, q \in 1..Len(E) : (IsDirect(E[p]) /\ E[p] = E[q]) => p = q
                /\ n \in BuiltSegments =>
                       heap[ps[n].obj].val.connections =
                           SelectSeq(E, LAMBDA x : x # NoObj
                                                   /\ ClsOf(heap, x) \in ConnectionClasses)

\* a built segment of three items in a row: two direct connections
C9_Witness ==
    /\ pc = "composed"
    /\ \E n \in BuiltSegments :
        /\ Len(OrderedKids(n)) = 3
        /\ Adjacent(n, 1) /\ Adjacent(n, 2)
        /\ Len(heap[ps[n].obj].val.connections) = 2
        /\ Len(ps[n].elems) = 5

\* the same document with the elements of segment n written in reverse order
ReversedWritten(d, n) == [d EXCEPT !.els[n].kids = Reverse(@)]

\* what a load made of segment n: the element sequence (a direct connection
\* shown as "dc"), the items, the source and target item and node of every
\* connection in list order, and those of the segment
Ends(h, r) == <<h[r].val.sourceItem, h[r].val.sourceNode, h[r].val.targetItem,
                h[r].val.targetNode>>
SegmentView(st, n) ==
    LET h == st.heap
        E == st.ps[n].elems
        seg == st.ps[n].obj
    IN  IF st.exc # NoExc THEN [raised |-> st.exc]
        ELSE IF seg = NoObj THEN [raised |-> "skipped"]
        ELSE [elems |-> [i \in 1..Len(E) |->
                            IF E[i] # NoObj /\ h[E[i]].cls = "DirectPipingConnection"
                            THEN "dc" ELSE ToString(E[i])],
              items |-> h[seg].val.items,
              conns |-> [i \in 1..Len(h[seg].val.connections) |->
                            Ends(h, h[seg].val.connections[i])],
              ends |-> Ends(h, seg)]
Here == [errors |-> errors, objects |-> objects, ps |-> ps, heap |-> heap, calls |-> calls,
         writes |-> writes, exc |-> raised, ret |-> NoObj, rlist |-> <<>>]
Segments == {n \in Nodes(doc) : Cls(doc, n) = "PipingNetworkSegment"}
FirstItem(n) == KidsOf(doc, n, ItemTags)[1]

\* the reference pass reversed segment n, and the load ends as the load of
\* the document with the segment written in reverse
ReversedAsWritten(n) ==
    LET c == Composed(doc)
    IN  /\ ps[n].obj # NoObj
        /\ ps[n].elems = Reverse(c.ps[n].elems)
        /\ heap[ps[n].obj].val.items = Reverse(c.heap[c.ps[n].obj].val.items)
        /\ heap[ps[n].obj].val.connections = Reverse(c.heap[c.ps[n].obj].val.connections)
        /\ SegmentView(Here, n) = SegmentView(Referenced(ReversedWritten(doc, n)), n)

Resolved(id) == get_object(Composed(doc), id)

MaxBlocks == 2      \* GenericAttributes blocks of the element

IndexError == "IndexError"
KeyError == "KeyError"

\* GenericAttributeParser.valid_attribute_lists
valid_attribute_lists == {"DexpiAttributes", "CustomAttributes", "DexpiCustomAttributes"}

\* str.removesuffix
removesuffix(name, suffix) ==
    IF Len(name) > 0 /\ name[Len(name)] = suffix THEN SubSeq(name, 1, Len(name) - 1)
    ELSE name

\* part[0].lower() + part[1:]
LowerFirst(part) ==
    CASE part = "A" -> "a"
      [] part = "N" -> "n"
      [] part = "M" -> "m"
      [] part = "U" -> "u"
      [] part = "E" -> "e"
      [] part = "Zz" -> "zz"
      [] part = "Specialization" -> "specialization"
      [] part = "AssignmentClass" -> "assignmentClass"
      [] OTHER -> part

\* the two suffixes removed, in the order of the code
Stripped(name) == removesuffix(removesuffix(name, "AssignmentClass"), "Specialization")

\* name[0].lower() + name[1:] of a stripped name: [ok, name]; ok = FALSE is
\* the IndexError of name[0] on the empty string
Lowered(name) ==
    IF name = <<>> THEN [ok |-> FALSE, name |-> <<>>]
    ELSE [ok |-> TRUE, name |-> <<LowerFirst(name[1])>> \o Tail(name)]

\* the DEXPI field name of an XML attribute name
FieldName(name) == Lowered(Stripped(name))

\* component_class.model_fields: the declared type of the fields of the
\* class the attributes are parsed for
ModelFields ==
    [f \in {<<"a">>, <<"n">>, <<"m">>, <<"e">>, <<"u">>} |->
        CASE f = <<"a">> -> "str"
          [] f = <<"n">> -> "int"
          [] f = <<"m">> -> "MultiLanguageString"
          [] f = <<"e">> -> "enumeration"
          [] f = <<"u">> -> "list"]

\* int(value): [ok, v]; ok = FALSE is the ValueError
IntOf(value) ==
    CASE value = "1" -> [ok |-> TRUE, v |-> 1]
      [] value = "2" -> [ok |-> TRUE, v |-> 2]
      [] value = "3" -> [ok |-> TRUE, v |-> 3]
      [] OTHER -> [ok |-> FALSE, v |-> 0]

\* attributes[name] = int(value), or the ValueError
IntTaken(acc, name, parsed) ==
    IF parsed.ok THEN [acc EXCEPT !.attributes = Put(@, name, [int |-> parsed.v])]
    ELSE [acc EXCEPT !.exc = ValueError]

\* the members of the enumeration of field e
EnumMembers == {"1", "2"}

\* attributes[name] = unit_class[value], or the KeyError
EnumTaken(acc, name, value) ==
    IF value \in EnumMembers THEN [acc EXCEPT !.attributes = Put(@, name, [enum |-> value])]
    ELSE [acc EXCEPT !.exc = KeyError]

\* multi_language_strings[name].append(SingleLanguageString(language, value))
StringTaken(acc, name, a) ==
    [acc EXCEPT !.multi_language_strings =
        Put(@, name, Append(IF name \in DOMAIN @ THEN @[name] ELSE <<>>,
                            [language |-> a.language, value |-> a.value]))]

\* one turn of the loop over the attributes of a block, for the attribute a
\* whose name gives the field name f; acc = [st, attributes, exc,
\* multi_language_strings]
ParseAttribute(d, n, acc, a, f) ==
    IF ~f.ok THEN [acc EXCEPT !.exc = IndexError]
    ELSE IF f.name \notin DOMAIN ModelFields \/ a.value = NoId THEN acc
    ELSE IF ModelFields[f.name] = "str"
    THEN [acc EXCEPT !.attributes = Put(@, f.name, [str |-> a.value])]
    ELSE IF ModelFields[f.name] = "int" THEN IntTaken(acc, f.name, IntOf(a.value))
    ELSE IF ModelFields[f.name] = "MultiLanguageString" THEN StringTaken(acc, f.name, a)
    ELSE IF ModelFields[f.name] = "enumeration" THEN EnumTaken(acc, f.name, a.value)
    ELSE [acc EXCEPT !.st = register_error(d, n, @,
                                Msg("unsupported attribute type", f.name, ModelFields[f.name], ""),
                                "ERROR", NoId, NoExc)]

\* the loop over the attributes as of a block, left by an exception
RECURSIVE ParseAttributes(_, _, _, _, _)
ParseAttributes(d, n, as, i, acc) ==
    IF i > Len(as) \/ acc.exc # NoExc THEN acc
    ELSE ParseAttributes(d, n, as, i + 1,
                         ParseAttribute(d, n, acc, as[i], FieldName(as[i].name)))

\* the except clause of parse_single_attribute_set: the error is registered
\* under self.context.get_last_id(), whose ValueError leaves the method; the
\* method returns attributes, and multi_language_strings is read nowhere
AttributesParsed(d, n, acc) ==
    IF acc.exc = NoExc THEN [st |-> acc.st, attributes |-> acc.attributes]
    ELSE IF get_last_id(id_stack(d, n)) = NoId
    THEN [st |-> Raise(acc.st, ValueError), attributes |-> <<>>]
    ELSE [st |-> register_error(d, n, acc.st, Msg("Error parsing attributes", "", "", ""),
                                "ERROR", get_last_id(id_stack(d, n)), acc.exc),
          attributes |-> <<>>]

\* GenericAttributeParser.parse_single_attribute_set: [st, attributes]
parse_single_attribute_set(d, n, st, block) ==
    IF block.set \notin valid_attribute_lists
    THEN [st |-> register_error(d, n, st, Msg("Invalid attribute set", block.set, "", ""),
                                "WARNING", NoId, NoExc),
          attributes |-> <<>>]
    ELSE AttributesParsed(d, n, ParseAttributes(d, n, block.attrs, 1,
                                    [st |-> st, attributes |-> <<>>, exc |-> NoExc,
                                     multi_language_strings |-> <<>>]))

\* one more attribute set parsed
SetParsed(acc, r) == [st |-> r.st, sets |-> Append(acc.sets, r.attributes)]

\* the list comprehension of compositional_pass over the blocks, left by an
\* exception: acc = [st, sets]
RECURSIVE ParseSets(_, _, _, _, _)
ParseSets(d, n, blocks, i, acc) ==
    IF i > Len(blocks) \/ acc.st.exc # NoExc THEN acc
    ELSE ParseSets(d, n, blocks, i + 1,
                   SetParsed(acc, parse_single_attribute_set(d, n, acc.st, blocks[i])))

\* the loop of check_for_duplicates over the attribute sets from the i-th
\* on; within one set the names are the keys of a dict
RECURSIVE DuplicatesFrom(_, _, _, _)
DuplicatesFrom(sets, i, seen, duplicates) ==
    IF i > Len(sets) THEN duplicates
    ELSE DuplicatesFrom(sets, i + 1, seen \cup DOMAIN sets[i],
                        duplicates \cup (DOMAIN sets[i] \cap seen))

\* GenericAttributeParser.check_for_duplicates
check_for_duplicates(sets) == DuplicatesFrom(sets, 1, {}, {})

\* a merge in which a later set overwrites an earlier one
RECURSIVE merge_attributes_LastWins(_)
merge_attributes_LastWins(sets) ==
    IF sets = <<>> THEN <<>>
    ELSE LET merged == merge_attributes_LastWins(SubSeq(sets, 1, Len(sets) - 1))
             last == sets[Len(sets)]
         IN  [f \in DOMAIN merged \cup DOMAIN last |->
                 IF f \in DOMAIN last THEN last[f] ELSE merged[f]]

\* one turn of the outer loop of merge_attributes: the names of attributes
\* that merged does not hold yet are taken
MergeInto(merged, attributes) ==
    [f \in DOMAIN merged \cup DOMAIN attributes |->
        IF f \in DOMAIN merged THEN merged[f] ELSE attributes[f]]

RECURSIVE MergeFrom(_, _, _)
MergeFrom(sets, i, merged) ==
    IF i > Len(sets) THEN merged
    ELSE MergeFrom(sets, i + 1, MergeInto(merged, sets[i]))

\* GenericAttributeParser.merge_attributes
merge_attributes(sets) == MergeFrom(sets, 1, <<>>)

\* the message of compositional_pass that names the duplicates
DuplicateMsg(duplicates) ==
    [kind |-> "Duplicate attributes found", who |-> "", arg |-> "", fld |-> "",
     names |-> duplicates]

\* compositional_pass once the attribute sets are parsed: [st, merged]
AttributesMerged(d, n, a, duplicates) ==
    IF a.st.exc # NoExc THEN [st |-> a.st, merged |-> <<>>]
    ELSE [st |-> IF duplicates # {}
                 THEN register_error(d, n, a.st, DuplicateMsg(duplicates), "ERROR", NoId, NoExc)
                 ELSE a.st,
          merged |-> merge_attributes(a.sets)]

\* the attribute sets parsed from the blocks: [st, sets]
AttributeSets(d, n, st, blocks) == ParseSets(d, n, blocks, 1, [st |-> st, sets |-> <<>>])

\* GenericAttributeParser.compositional_pass
GenericAttributeParser_compositional_pass(d, n, st, blocks) ==
    AttributesMerged(d, n, AttributeSets(d, n, st, blocks),
                     check_for_duplicates(AttributeSets(d, n, st, blocks).sets))

\* the element that carries the blocks, with or without an ID
AttrDoc(id) ==
    [els |-> <<Elem("PlantModel", 0, <<2>>, NoId), Elem("Equipment", 1, <<>>, id)>>,
     fault |-> NoFault]
AttrNode == 2

Attr(name, value) == [name |-> name, value |-> value, language |-> NoId]
LangAttr(name, language, value) == [name |-> name, value |-> value, language |-> language]
Block(set, attrs) == [set |-> set, attrs |-> attrs]

\* the blocks an element is given
Blocks ==
    {Block("DexpiAttributes", <<Attr(<<"A">>, "1")>>),
     Block("DexpiAttributes", <<Attr(<<"A">>, "2"), Attr(<<"N">>, "1")>>),
     Block("CustomAttributes", <<Attr(<<"a", "Specialization">>, "3"), Attr(<<"N">>, "2")>>),
     Block("Attributes", <<Attr(<<"A">>, "3")>>),
     Block("DexpiAttributes", <<Attr(<<"A">>, "3"), Attr(<<"N">>, "x")>>),
     Block("DexpiAttributes", <<Attr(<<"A">>, NoId), LangAttr(<<"M">>, "en", "1")>>),
     Block("DexpiAttributes", <<Attr(<<"A">>, "1"), LangAttr(<<"M">>, "en", "1"),
                                LangAttr(<<"M">>, "de", "2")>>),
     Block("DexpiAttributes", <<Attr(<<"A">>, "1"), Attr(<<"E">>, "x"), Attr(<<"N">>, "2")>>),
     Block("CustomAttributes", <<Attr(<<"E">>, "2")>>),
     Block("DexpiCustomAttributes", <<Attr(<<"A">>, "1"), Attr(<<"A">>, "2")>>),
     Block("DexpiAttributes", <<Attr(<<"N">>, "3"), Attr(<<"Specialization">>, "1")>>),
     Block("DexpiAttributes", <<Attr(<<"U">>, "1"), Attr(<<"Zz">>, "1"),
                                Attr(<<"A", "AssignmentClass", "Specialization">>, "1"),
                                Attr(<<"N", "Specialization", "AssignmentClass">>, "2")>>),
     Block("DexpiAttributes", <<>>)}

BlockLists == SeqsUpTo(Blocks, MaxBlocks)

\* the variables of a load, at rest while a component is driven on its own
AtRest ==
    /\ pc = "idle"
    /\ model = NoObj
    /\ errors = <<>>
    /\ objects = <<>>
    /\ ps = <<>>
    /\ heap = <<>>
    /\ calls = <<>>
    /\ writes = <<>>
    /\ returned = NoObj
    /\ raised = NoExc
    /\ loads = 0
    /\ result = Nothing

AttrInit ==
    /\ AtRest
    /\ \E id \in {"e1", NoId}, blocks \in BlockLists :
        /\ doc = AttrDoc(id)
        /\ call = [op |-> "GenericAttributeParser.compositional_pass", arg |-> blocks]

\* what the call left behind
AttrOutcome(r) ==
    /\ errors' = r.st.errors
    /\ raised' = r.st.exc
    /\ result' = IF r.st.exc # NoExc THEN Nothing ELSE r.merged
    /\ pc' = "done"
    /\ UNCHANGED <<doc, model, objects, ps, heap, calls, writes, returned, loads, call>>

\* generic_attributes = self.generic_attribute_parser.compositional_pass(MyClass)
ParseGenericAttributes ==
    /\ pc = "idle"
    /\ call.op = "GenericAttributeParser.compositional_pass"
    /\ AttrOutcome(GenericAttributeParser_compositional_pass(doc, AttrNode, LoadState, call.arg))

AttrNext == ParseGenericAttributes

AttrSpec == AttrInit /\ [][AttrNext]_vars

(***************************************************************************)
(* C11: merging the generic attributes of one element                      *)
(***************************************************************************)
AttrDone == pc = "done" /\ call.op = "GenericAttributeParser.compositional_pass"

\* the ERROR entries of the log that name duplicated attributes
C11_DuplicateErrors ==
    {i \in 1..Len(errors) : errors[i].msg.kind = "Duplicate attributes found"}

\* the field names written in a block, and the blocks that write a field
C11_Written(block) ==
    {FieldName(block.attrs[k].name).name : k \in 1..Len(block.attrs)} \cap DOMAIN ModelFields
C11_Writers(f) == {i \in 1..Len(call.arg) : f \in C11_Written(call.arg[i])}
C11_First(S) == CHOOSE i \in S : \A j \in S : i <= j

\* the values a block writes for the field f, as the field's type reads them
C11_ValuesOf(block, f) ==
    {IF ModelFields[f] = "int" THEN [int |-> IntOf(block.attrs[k].value).v]
                               ELSE [str |-> block.attrs[k].value] :
        k \in {k \in 1..Len(block.attrs) : FieldName(block.attrs[k].name).name = f}}

C11_Sets ==
    [i \in 1..Len(call.arg) |->
        parse_single_attribute_set(doc, AttrNode, LoadState, call.arg[i]).attributes]
C11_Holders(f) == {i \in 1..Len(call.arg) : f \in DOMAIN C11_Sets[i]}
C11_Held == UNION {DOMAIN C11_Sets[i] : i \in 1..Len(call.arg)}

\* a block fails to parse where no ID is in reach to log the failure under
C11_Escapes ==
    \E i \in 1..Len(call.arg) :
        parse_single_attribute_set(doc, AttrNode, LoadState, call.arg[i]).st.exc # NoExc

C12_Plant(where) ==
    OpcDoc(where, "r1", "PipeOffPageConnectorObjectReference", "refers to", "o2", FALSE, NoFault)

C12_Loaded(where) == pc = "done" /\ doc = C12_Plant(where)

C12_Severe == {i \in 1..Len(errors) : errors[i].level \in {"ERROR", "CRITICAL"}}

\* the fields of the objects built for the elements of the plant
C12_Systems == heap[returned].val.pipingNetworkSystems
C12_Segments == heap[4].val.segments
C12_Items == heap[5].val.items
C12_Connections == heap[5].val.connections
C12_Referenced == Get(heap, 9, "referencedConnector")

\* C12 (as stated): wherever the second connector is written, the load
\* yields one system with one segment of 2 items and 1 connection, the
\* referenced connector of the reference is the second connector, and no
\* ERROR or CRITICAL is logged.
C12_ScenarioAsStated ==
    \A where \in {"same", "other", "none"} :
        C12_Loaded(where) =>
            /\ Len(C12_Systems) = 1
            /\ Len(C12_Segments) = 1
            /\ Len(C12_Items) = 2
            /\ Len(C12_Connections) = 1
            /\ C12_Referenced = 11
            /\ C12_Severe = {}

\* C12 (amended): the load returns a model with one system whose first
\* segment starts with the piping component and the first connector, which
\* holds the reference.  With the second connector as fourth element of the
\* segment, the one segment has 3 items and 2 connections (the pipe of the
\* center line and a direct connection between the two connectors), the
\* reference is resolved and no ERROR or CRITICAL is logged; so it is with
\* the second connector in a second segment, where the first segment has 2
\* items and 1 connection.  With the second connector in no segment the one
\* segment has 2 items and 1 connection, the reference stays unresolved and
\* exactly one ERROR is logged.
C12_ScenarioResolved ==
    \A where \in {"same", "other", "none"} :
        C12_Loaded(where) =>
            /\ returned = Root
            /\ C12_Systems = <<4>>
            /\ Get(heap, 8, "connectorReference") = 9
            /\ ClsOf(heap, C12_Connections[1]) = "Pipe"
            /\ CASE where = "same" ->
                      /\ C12_Segments = <<5>>
                      /\ C12_Items = <<6, 8, 11>>
                      /\ Len(C12_Connections) = 2
                      /\ ClsOf(heap, C12_Connections[2]) = "DirectPipingConnection"
                      /\ C12_Referenced = 11
                      /\ C12_Severe = {}
                 [] where = "other" ->
                      /\ C12_Segments = <<5, 12>>
                      /\ C12_Items = <<6, 8>>
                      /\ Len(C12_Connections) = 1
                      /\ heap[12].val.items = <<11>>
                      /\ C12_Referenced = 11
                      /\ C12_Severe = {}
                 [] where = "none" ->
                      /\ C12_Segments = <<5>>
                      /\ C12_Items = <<6, 8>>
                      /\ Len(C12_Connections) = 1
                      /\ C12_Referenced = NoObj
                      /\ Cardinality(C12_Severe) = 1
                      /\ \A i \in C12_Severe :
                            /\ errors[i].level = "ERROR"
                            /\ errors[i].src = 9

\* the plant is loaded with the second connector in the segment and the
\* reference resolved to it
C12_Witness ==
    /\ C12_Loaded("same")
    /\ C12_Referenced = 11
    /\ ClsOf(heap, 11) = "PipeOffPageConnector"
    /\ C12_Severe = {}

(***************************************************************************)
(* C13, C14: the writes to the object registry                             *)
(***************************************************************************)
\* the writes of the load so far that are made under the id pid, and the
\* pass in which a write is made
WritesUnder(pid) == {i \in 1..Len(writes) : writes[i].id = pid}
WrittenIn(i) == calls[writes[i].at].ph

\* every write is made in the compositional pass
C13_WrittenInCompositionalPass ==
    \A i \in 1..Len(writes) : writes[i].at >= 1 /\ WrittenIn(i) = "comp"

\* C13 (as stated): in a load the object registry is written at most once
\* under any id, also for a document with two elements of the same ID, and
\* only in the compositional pass.
C13_WrittenOncePerId ==
    /\ \A i \in 1..Len(writes) : Cardinality(WritesUnder(writes[i].id)) <= 1
    /\ C13_WrittenInCompositionalPass

\* C14: the reference pass and the control pass leave the object registry
\* as it is: no write is made and no entry changes, so that the registry at
\* the end of the load is the registry at the end of the compositional pass.
C14_RegistryFrozenAfterComposition ==
    [][(pc \in {"composed", "referenced"}) => (objects' = objects /\ writes' = writes)]_vars

\* a load ran its reference and control pass on a registry that holds
\* objects, and an association was resolved from it
C14_Witness ==
    /\ pc = "done"
    /\ DOMAIN objects # {}
    /\ objects = Composed(doc).objects
    /\ \E n \in Nodes(doc) : Cls(doc, n) = "Association" /\ ps[n].refItem # NoObj

(***************************************************************************)
(* ErrorRegistry, driven on its own: register_error and get_errors are     *)
(* called in any order on one registry; calls is the trace of the          *)
(* register_error calls made.                                              *)
(***************************************************************************)
MaxCalls == 2       \* register_error calls made on the registry

\* core.ErrorLevels
ErrorLevels == {"INFO", "WARNING", "ERROR", "CRITICAL"}

\* the entries handed to register_error
Entries ==
    {[msg |-> Msg("entry", "", "", ""), level |-> level, src |-> 0, exc |-> exc, id |-> NoId] :
        level \in ErrorLevels, exc \in {NoExc, InternalParserError}}
    \cup {[msg |-> Msg("entry", "", "", ""), level |-> "ERROR", src |-> 0, exc |-> ValueError,
           id |-> "e1"]}

\* the lists of levels handed to get_errors
LevelLists == SeqsUpTo(ErrorLevels, 2)

\* a filter that returns the whole log
get_errors_Unfiltered(log, given, levels) == log

\* core.ErrorRegistry.get_errors; given = FALSE is levels=None
get_errors(log, given, levels) ==
    IF ~given THEN log ELSE SelectSeq(log, LAMBDA error : error.level \in Range(levels))

\* a registry on which no call was made yet
RegInit ==
    /\ AtRest
    /\ doc = NoDoc
    /\ call = NoCall

\* what a call of method op with argument arg left behind in the registry
\* (state r) and handed back
Called(op, arg, r, handed) ==
    /\ call' = [op |-> op, arg |-> arg]
    /\ errors' = r.errors
    /\ objects' = r.objects
    /\ writes' = r.writes
    /\ raised' = r.exc
    /\ result' = handed
    /\ UNCHANGED <<doc, pc, model, ps, heap, returned, loads>>

\* error_registry.register_error(entry)
RegisterError ==
    /\ Len(calls) < MaxCalls
    /\ \E entry \in Entries :
        /\ Called("register_error", entry, ErrorRegistry_register_error(LoadState, entry),
                  Nothing)
        /\ calls' = Append(calls, entry)

\* error_registry.get_errors(levels)
GetErrors ==
    /\ \E given \in BOOLEAN, levels \in LevelLists :
        /\ given \/ levels = <<>>
        /\ Called("get_errors", [given |-> given, levels |-> levels], LoadState,
                  [kind |-> "list", v |-> get_errors(errors, given, levels)])
    /\ UNCHANGED calls

ErrNext == RegisterError \/ GetErrors

ErrSpec == RegInit /\ [][ErrNext]_vars

(***************************************************************************)
(* C16, C17: the diagnostic log                                            *)
(***************************************************************************)
\* the indices of the log, in order, whose entry has a level among levels
RECURSIVE C16_Matching(_, _)
C16_Matching(i, levels) ==
    IF i > Len(calls) THEN <<>>
    ELSE (IF \E k \in 1..Len(levels) : levels[k] = calls[i].level THEN <<calls[i]>> ELSE <<>>)
         \o C16_Matching(i + 1, levels)

\* C16: the log is the sequence of the entries registered, in call order;
\* get_errors() returns it, and get_errors(levels) returns the entries whose
\* level is among levels, in the same order.
C16_LogIsAppendOnly ==
    /\ errors = calls
    /\ call.op = "get_errors" =>
          /\ raised = NoExc
          /\ result.v = IF call.arg.given THEN C16_Matching(1, call.arg.levels) ELSE calls

\* a filter over a log with entries of different levels kept some of them,
\* and the empty filter none
C16_Witness ==
    /\ call.op = "get_errors"
    /\ call.arg.given
    /\ Len(errors) = 2
    /\ errors[1].level # errors[2].level
    /\ result.v = <<errors[2]>>

\* C17: register_error with an entry that carries an InternalParserError
\* appends the entry and raises that exception; with any other entry it
\* appends the entry and returns.
C17_AppendsThenRaises ==
    call.op = "register_error" =>
        /\ errors = Append(SubSeq(calls, 1, Len(calls) - 1), call.arg)
        /\ raised = IF call.arg.exc = InternalParserError THEN InternalParserError ELSE NoExc

\* an entry with an InternalParserError was registered in a log that held an
\* entry: the call raised and the log holds both
C17_Witness ==
    /\ call.op = "register_error"
    /\ call.arg.exc = InternalParserError
    /\ raised = InternalParserError
    /\ Len(errors) = 2
    /\ errors[2] = call.arg

(***************************************************************************)
(* ObjectRegistry, driven on its own: register_object and get_object are   *)
(* called in any order on one registry; calls is the trace of the          *)
(* register_object calls made.                                             *)
(***************************************************************************)
\* the ids and the objects handed to the registry
RegIds == {"a", "b", "zz"}
RegObjs == {1, 2, 3}

\* object_registry.register_object(pid, obj)
RegisterObject ==
    /\ Len(calls) < MaxCalls
    /\ \E pid \in RegIds \ {"zz"}, obj \in RegObjs :
        /\ Called("register_object", [id |-> pid, obj |-> obj],
                  register_object(LoadState, pid, obj), Nothing)
        /\ calls' = Append(calls, [id |-> pid, obj |-> obj])

\* object_registry.get_object(pid)
GetObject ==
    /\ \E pid \in RegIds :
        Called("get_object", [id |-> pid], LoadState,
               [kind |-> "object", v |-> get_object(LoadState, pid)])
    /\ UNCHANGED calls

ObjNext == RegisterObject \/ GetObject

ObjSpec == RegInit /\ [][ObjNext]_vars

(***************************************************************************)
(* C15: registering an id again                                            *)
(***************************************************************************)
\* the register_object calls made under the id pid, and the last of a
\* non-empty set of calls
C15_Under(pid) == {i \in 1..Len(calls) : calls[i].id = pid}
C15_Last(S) == CHOOSE i \in S : \A j \in S : j <= i

\* C15: the registry holds, for every id registered, the object of the last
\* register_object call under that id, and nothing else; get_object returns
\* that object, and None for an id that was never registered, without
\* adding an entry.
C15_LastRegistrationWins ==
    /\ DOMAIN objects = {calls[i].id : i \in 1..Len(calls)}
    /\ \A pid \in DOMAIN objects : objects[pid] = calls[C15_Last(C15_Under(pid))].obj
    /\ call.op = "get_object" =>
          /\ raised = NoExc
          /\ result.v = IF C15_Under(call.arg.id) = {} THEN NoObj
                        ELSE calls[C15_Last(C15_Under(call.arg.id))].obj

\* an id was registered twice with different objects, and get_object
\* returned the second
C15_Witness ==
    /\ call.op = "get_object"
    /\ Cardinality(C15_Under(call.arg.id)) = 2
    /\ calls[1].obj # calls[2].obj
    /\ result.v = calls[2].obj

(***************************************************************************)
(* ModuleContext, driven on its own: get_updated_context is called on any  *)
(* context made so far with any element; ps is the list of the contexts,   *)
(* the root contexts of two loaders first, and calls is the trace of the   *)
(* calls, the i-th of which made ps[i + 2].                                *)
(***************************************************************************)
MaxContexts == 2    \* contexts made by get_updated_context

\* ModuleContext(element_stack=[root_element.tag], id_stack=[root_id], ...)
\* of a loader whose registries are the instances er and or
RootContext(er, or) ==
    [element_stack |-> <<"PlantModel">>, id_stack |-> <<NoId>>,
     error_registry |-> er, object_registry |-> or]

\* the elements handed to get_updated_context: the tag and element.get("ID", None)
ContextElements == {[tag |-> tag, id |-> id] : tag \in {"Equipment", "Nozzle"},
                                                id \in {"e1", "n1", NoId}}

\* a context that takes the ID of an element only when it has one
get_updated_context_SkipNone(ctx, element) ==
    [ctx EXCEPT !.element_stack = Append(@, element.tag),
                !.id_stack = IF element.id = NoId THEN @ ELSE Append(@, element.id)]

\* core.ModuleContext.get_updated_context
get_updated_context(ctx, element) ==
    [element_stack |-> ctx.element_stack \o <<element.tag>>,
     id_stack |-> ctx.id_stack \o <<element.id>>,
     error_registry |-> ctx.error_registry,
     object_registry |-> ctx.object_registry]

CtxInit ==
    /\ ps = <<RootContext(1, 2), RootContext(3, 4)>>
    /\ doc = NoDoc
    /\ pc = "idle"
    /\ model = NoObj
    /\ errors = <<>>
    /\ objects = <<>>
    /\ heap = <<>>
    /\ calls = <<>>
    /\ writes = <<>>
    /\ returned = NoObj
    /\ raised = NoExc
    /\ loads = 0
    /\ call = NoCall
    /\ result = Nothing

\* sub_context = context.get_updated_context(child)
GetUpdatedContext ==
    /\ Len(calls) < MaxContexts
    /\ \E parent \in DOMAIN ps, element \in ContextElements :
        /\ call' = [op |-> "get_updated_context", arg |-> [parent |-> parent, element |-> element]]
        /\ calls' = Append(calls, [parent |-> parent, element |-> element])
        /\ ps' = Append(ps, get_updated_context(ps[parent], element))
        /\ result' = [kind |-> "context", v |-> Len(ps) + 1]
    /\ UNCHANGED <<doc, pc, model, errors, objects, heap, writes, returned, raised, loads>>

CtxNext == GetUpdatedContext

CtxSpec == CtxInit /\ [][CtxNext]_vars

(***************************************************************************)
(* C18: the context of a child element                                     *)
(***************************************************************************)
\* C18: every context made by get_updated_context has the element stack and
\* the id stack of the context it was made from, as that context is now,
\* with the tag and the ID of the element (null if absent) appended, and
\* the registry instances of that context; the root contexts are as they
\* were made.
C18_ContextExtendsParent ==
    /\ Len(ps) = Len(calls) + 2
    /\ ps[1] = RootContext(1, 2)
    /\ ps[2] = RootContext(3, 4)
    /\ \A i \in 1..Len(calls) :
          LET made == ps[i + 2]
              from == ps[calls[i].parent]
          IN  /\ made.element_stack = Append(from.element_stack, calls[i].element.tag)
              /\ made.id_stack = Append(from.id_stack, calls[i].element.id)
              /\ Len(made.id_stack) = Len(made.element_stack)
              /\ made.error_registry = from.error_registry
              /\ made.object_registry = from.object_registry

\* a context was made for an element without ID from a context that was
\* itself made by get_updated_context, in the second loader
C18_Witness ==
    /\ call.op = "get_updated_context"
    /\ Len(calls) = 2
    /\ call.arg.parent = 3
    /\ call.arg.element.id = NoId
    /\ ps[4].id_stack = Append(ps[3].id_stack, NoId)
    /\ ps[4].error_registry = 3

(***************************************************************************)
(* The PlantInformation block of the root (checked under Spec).            *)
(***************************************************************************)
\* the CRITICAL entries PlantModelParser wrote about PlantInformation
InformationCriticals ==
    {i \in 1..Len(errors) :
        /\ errors[i].level = "CRITICAL"
        /\ errors[i].src = Root
        /\ errors[i].msg.kind = "PlantInformation"}

\* a load has ended of a document whose PlantInformation is in one of the
\* states s
InformationIs(s) ==
    /\ Finished
    /\ doc # NoDoc
    /\ doc.els[Root].info \in s

\* C19 (as stated): when the root has no PlantInformation block, or the
\* block lacks Date, Time, OriginatingSystem, OriginatingSystemVendor or
\* OriginatingSystemVersion, a CRITICAL diagnostic is logged and the load
\* ends without returning a model.
C19_MissingInformationAborts ==
    InformationIs({"missing"} \cup ConvertedInformation \cup OptionalInformation) =>
        /\ InformationCriticals # {}
        /\ pc = "aborted"
        /\ returned = NoObj

\* C19 (the part that holds): without the block, or without its Date or its
\* Time, exactly one CRITICAL diagnostic is logged, no child is composed and
\* the load ends with the exception, returning no model; in every case of
\* the claim the CRITICAL diagnostic is logged.
C19_MissingBlockOrDateAborts ==
    /\ InformationIs({"missing"} \cup ConvertedInformation) =>
        /\ Cardinality(InformationCriticals) = 1
        /\ Len(errors) = 1
        /\ pc = "aborted"
        /\ raised # NoExc
        /\ raised # InternalParserError
        /\ returned = NoObj
        /\ Len(calls) = 2
    /\ InformationIs(OptionalInformation) =>
        /\ Cardinality(InformationCriticals) = 1
        /\ errors[1].level = "CRITICAL"
        /\ errors[1].exc = NoExc
    /\ InformationIs({"ok"}) => InformationCriticals = {}

\* a load of a document whose PlantInformation has no OriginatingSystem
\* ended with the CRITICAL diagnostic logged and the model returned
C19_ModelReturnedDespiteCritical ==
    /\ pc = "done"
    /\ doc.els[Root].info = "nosystem"
    /\ InformationCriticals # {}
    /\ returned # NoObj
    /\ raised = NoExc

(***************************************************************************)
(* The ways a load ends (checked under Spec).                              *)
(***************************************************************************)
\* the load ran the three passes of the root to their end
ThreePassesCompleted ==
    /\ pc = "done"
    /\ PhasesOf(RootEvents("exit")) = <<"comp", "ref", "ctl">>

\* the exception that ended the load was raised by the code of the root's
\* compositional pass itself: it left that call, and the call before it in
\* the history was not one left by an exception
RaisedByRootComposition ==
    /\ Len(calls) >= 2
    /\ calls[Len(calls)].ev = "raise"
    /\ calls[Len(calls)].n = Root
    /\ calls[Len(calls)].ph = "comp"
    /\ calls[Len(calls)].exc = raised
    /\ calls[Len(calls) - 1].ev # "raise"

\* the exceptions that were caught by an error boundary and logged
CaughtByBoundary == {errors[i].exc : i \in Boundary}

CustomVariant(tag) ==
    CASE tag = "Equipment" -> "CustomEquipment"
      [] tag \in ItemTags -> "CustomPipingComponent"
      [] tag = "ActuatingSystemComponent" -> "CustomActuatingSystemComponent"
      [] OTHER -> "none"

KnownClasses(tag) ==
    CASE tag = "Equipment" -> EquipmentClasses
      [] tag \in ItemTags -> ItemClasses
      [] tag = "ActuatingSystemComponent" -> ComponentClasses
      [] tag = "PipeOffPageConnectorReference" -> ReferenceClasses
      [] OTHER -> {}

\* the elements of the families tags that have an ID and a ComponentClass
\* that names no known class, and whose compositional pass was called
UnknownClass(tags) ==
    {n \in Nodes(doc) :
        /\ Cls(doc, n) \in tags
        /\ doc.els[n].id # NoId
        /\ doc.els[n].cc # NoId
        /\ doc.els[n].cc \notin KnownClasses(Cls(doc, n))
        /\ n \in Entered(calls, "comp")}

PolymorphicTags ==
    {"Equipment", "ActuatingSystemComponent", "PipeOffPageConnectorReference"} \cup ItemTags

WarningsOf(n) == {i \in 1..Len(errors) : errors[i].src = n /\ errors[i].level = "WARNING"}

\* the custom object of element n exists and is registered under its ID
C21_Created(n) ==
    /\ ComposedAs(n) = {n}
    /\ n \in DOMAIN heap
    /\ heap[n].cls = CustomVariant(Cls(doc, n))
    /\ doc.els[n].id \in DOMAIN objects
    /\ objects[doc.els[n].id] = n

C21_NameStored(n) == n \in DOMAIN heap /\ heap[n].typeName = doc.els[n].cc

C21_OneWarning(n) == Cardinality(WarningsOf(n)) = 1 /\ ErrorsOf(n) = {}

\* C21 (as stated): every polymorphic element with an ID whose ComponentClass
\* names no known class is created as the custom variant of its family with
\* the class name stored in it, is registered, and gets one WARNING and no
\* ERROR.
C21_UnknownClassBecomesCustom ==
    (pc = "composed" /\ doc.fault = NoFault) =>
        \A n \in UnknownClass(PolymorphicTags) :
            C21_Created(n) /\ C21_NameStored(n) /\ C21_OneWarning(n)

\* C21 (the part that holds): this is so for equipment and for actuating
\* system components; a piping component is created as the custom variant,
\* registered and warned about, but holds no class name; an off-page
\* connector reference is not created and gets one ERROR and no WARNING.
C21_CustomByFamily ==
    (pc = "composed" /\ doc.fault = NoFault) =>
        /\ \A n \in UnknownClass({"Equipment", "ActuatingSystemComponent"}) :
              C21_Created(n) /\ C21_NameStored(n) /\ C21_OneWarning(n)
        /\ \A n \in UnknownClass(ItemTags) :
              C21_Created(n) /\ C21_OneWarning(n) /\ heap[n].typeName = NoId
        /\ \A n \in UnknownClass({"PipeOffPageConnectorReference"}) :
              /\ ComposedAs(n) = {NoObj}
              /\ n \notin DOMAIN heap
              /\ WarningsOf(n) = {}
              /\ Cardinality(ErrorsOf(n)) = 1

\* a piping component of an unknown class was created as a
\* CustomPipingComponent that does not hold the class name
C21_NameLost ==
    /\ pc = "composed"
    /\ doc.fault = NoFault
    /\ \E n \in UnknownClass({"PipingComponent"}) : C21_Created(n) /\ ~C21_NameStored(n)

\* an off-page connector reference of an unknown class was not created
C21_ReferenceLost ==
    /\ pc = "composed"
    /\ doc.fault = NoFault
    /\ \E n \in UnknownClass({"PipeOffPageConnectorReference"}) : ErrorsOf(n) # {}

\* an equipment item of an unknown class was created as CustomEquipment
C21_EquipmentKept ==
    /\ pc = "composed"
    /\ \E n \in UnknownClass({"Equipment"}) : C21_Created(n) /\ C21_NameStored(n)

(***************************************************************************)
(* The passes of a node that has no object (checked under Spec).           *)
(***************************************************************************)
\* the element name in the 'pass skipped' message of the parser class of
\* an element for phase ph, "none" when the class inherits the pass of
\* ParserModule
SkipName(cls, ph) ==
    CASE ph = "ref" /\ cls \in {"Nozzle", "Equipment", "PipingNetworkSegment",
                                "PipingNetworkSystem", "ActuatingSystemComponent"} -> cls
      [] ph = "ref" /\ cls = "PipeOffPageConnectorReference" -> "OffPageConnectorReference"
      [] ph = "ctl" /\ cls \in {"Nozzle", "Equipment", "PipingNetworkSegment",
                                "ActuatingSystem"} -> cls
      [] ph = "ctl" /\ cls \in ItemTags -> "PipingComponent"
      [] OTHER -> "none"

\* the submodules of the parser of node n
SubsOf(n) ==
    CASE Cls(doc, n) = "Nozzle" ->
            KidsOf(doc, n, {"ConnectionPoints"}) \o KidsOf(doc, n, {"Association"})
      [] Cls(doc, n) = "Equipment" -> EquipmentSubmodules(doc, n)
      [] Cls(doc, n) = "PipingNetworkSegment" -> SegmentSubmodules(doc, n)
      [] OTHER -> Submodules(doc, n)

\* the nodes that build an object whose compositional pass was called and
\* did not return one
WithoutObject ==
    {n \in NeedsId(doc) \cup {m \in Nodes(doc) : Cls(doc, m) = "PipeOffPageConnectorReference"} :
        n \in Entered(calls, "comp") /\ n \notin ComposedAs(n)}

\* the 'pass skipped' entry of node n for phase ph
SkipEntry(n, ph) ==
    [msg |-> skip_pass(IF ph = "ref" THEN "reference" ELSE "control",
                       SkipName(Cls(doc, n), ph)).msg,
     level |-> "INFO", src |-> n, exc |-> NoExc, id |-> get_last_id(id_stack(doc, n))]

SkipsLogged(n, ph) == {i \in 1..Len(errors) : errors[i] = SkipEntry(n, ph)}

\* phase ph is the one load_xmlstring runs next
Before(ph) == (ph = "ref" /\ pc = "composed") \/ (ph = "ctl" /\ pc = "referenced")

\* the pass ph of node n, called in the state the load is in, leaves what
\* the passes of its submodules leave, and logs (logged) or does not log
\* one INFO 'pass skipped' entry for n after them
OnlySubmodulesRun(n, ph, logged) ==
    LET k == DefaultPass(doc, ph, n, SubsOf(n), LoadState)
    IN  Body(doc, ph, n, LoadState) =
            IF logged /\ k.exc = NoExc
            THEN [k EXCEPT !.errors = Append(@, SkipEntry(n, ph))]
            ELSE k

MaxPasses == 2      \* phase-method calls made by the caller

PassDocs ==
    {BaseEqDoc,
     SegDoc("s", <<"PipingComponent", "PipingComponent">>, ItemIdNames, NoFlows,
            NoId, "a", NoFault)}

\* make_plant_model_parser: the tree is built, no pass was called
PassInit ==
    /\ \E d \in PassDocs :
        /\ doc = d
        /\ ps = FreshState(d).ps
        /\ errors = FreshState(d).errors
    /\ pc = "built"
    /\ model = NoObj
    /\ objects = <<>>
    /\ heap = <<>>
    /\ calls = <<>>
    /\ writes = <<>>
    /\ returned = NoObj
    /\ raised = NoExc
    /\ loads = 0
    /\ call = NoCall
    /\ result = Nothing

\* parser.<phase method>() on the parser of node n
CallPass(ph, n) ==
    LET r == Run(doc, ph, n, LoadState)
    IN  /\ loads < MaxPasses
        /\ Cls(doc, n) # "Unused"
        /\ call' = [op |-> ph, arg |-> n]
        /\ loads' = loads + 1
        /\ errors' = r.errors
        /\ objects' = r.objects
        /\ ps' = r.ps
        /\ heap' = r.heap
        /\ calls' = r.calls
        /\ writes' = r.writes
        /\ raised' = r.exc
        /\ UNCHANGED <<doc, pc, model, returned, result>>

CallCompositional == \E n \in Nodes(doc) : CallPass("comp", n)
CallReference == \E n \in Nodes(doc) : CallPass("ref", n)
CallControl == \E n \in Nodes(doc) : CallPass("ctl", n)

PassNext == CallCompositional \/ CallReference \/ CallControl

PassSpec == PassInit /\ [][PassNext]_vars

\* the last call was a reference or control pass on a node whose
\* compositional pass had not been called
CalledBeforeComposition ==
    /\ call.op \in {"ref", "ctl"}
    /\ call.arg \notin Entered(calls, "comp")

\* C23 (as stated): a reference or control pass called on a node whose
\* compositional pass has not been called ends with an InternalParserError.
C23_PassBeforeCompositionRaises ==
    CalledBeforeComposition => raised = InternalParserError

\* C23 (what the code does): such a call raises nothing and returns; made
\* as the first call on a fresh tree it builds and registers nothing, and
\* the entries it logs are INFO 'pass skipped' entries.
C23_PassBeforeCompositionIsSkipped ==
    CalledBeforeComposition =>
        /\ raised = NoExc
        /\ calls[Len(calls)] = [ev |-> "exit", n |-> call.arg, ph |-> call.op,
                                exc |-> NoExc, ret |-> NoObj]
        /\ loads = 1 =>
              /\ heap = <<>>
              /\ objects = <<>>
              /\ \A i \in 1..Len(errors) :
                    errors[i].level = "INFO" /\ errors[i].msg.kind = "skip_pass"

\* the reference pass was called first on a nozzle, and ended normally with
\* one INFO 'pass skipped' entry
C23_SkippedInsteadOfRaised ==
    /\ loads = 1
    /\ call.op = "ref"
    /\ Cls(doc, call.arg) = "Nozzle"
    /\ raised = NoExc
    /\ Len(errors) = 1
    /\ errors[1].level = "INFO"
    /\ errors[1].src = call.arg

(***************************************************************************)
(* Calls of the compositional pass per node (checked under Spec).          *)
(***************************************************************************)
\* C24: in a load, the compositional pass is called at most once on every
\* parser node.
C24_ComposedAtMostOnce ==
    \A n \in Nodes(doc) : Cardinality(EntriesOf(n, "comp")) <= 1

\* a load ended in which a pipe off-page connector with two references was
\* composed: the connector and its first reference once, the second
\* reference, which comes after the first valid one, never, and every
\* other element of the document once
C24_Witness ==
    /\ pc = "done"
    /\ doc.fault = NoFault
    /\ \E n \in Nodes(doc) :
          /\ Cls(doc, n) = "PipeOffPageConnector"
          /\ Len(KidsOf(doc, n, {"PipeOffPageConnectorReference"})) = 2
          /\ Cardinality(EntriesOf(n, "comp")) = 1
          /\ Cardinality(EntriesOf(KidsOf(doc, n, {"PipeOffPageConnectorReference"})[1],
                                   "comp")) = 1
          /\ EntriesOf(KidsOf(doc, n, {"PipeOffPageConnectorReference"})[2], "comp") = {}
    /\ \A n \in Nodes(doc) :
          Cls(doc, n) \notin {"Unused", "PipeOffPageConnectorReference"} =>
              Cardinality(EntriesOf(n, "comp")) = 1

(***************************************************************************)
(* Recursion of the reference and the control pass (checked under Spec).   *)
(***************************************************************************)
\* the index at which the call entered at index i of the history ended
EndOf(i) ==
    CHOOSE b \in i..Len(calls) :
        /\ b > i
        /\ calls[b].n = calls[i].n /\ calls[b].ph = calls[i].ph /\ calls[b].ev # "enter"
        /\ \A c \in (i + 1)..(b - 1) :
              ~(calls[c].n = calls[i].n /\ calls[c].ph = calls[i].ph /\ calls[c].ev # "enter")

\* the nodes on which the call entered at index i called the same pass, in
\* the order of these calls
RECURSIVE CalledFrom(_, _, _)
CalledFrom(i, c, b) ==
    IF c >= b THEN <<>>
    ELSE IF calls[c].ev = "enter" /\ doc.els[calls[c].n].parent = calls[i].n
         THEN <<calls[c].n>> \o CalledFrom(i, c + 1, b)
         ELSE CalledFrom(i, c + 1, b)

\* the calls of a reference or control pass that returned
PassesReturned ==
    {i \in 1..Len(calls) :
        /\ calls[i].ev = "enter"
        /\ calls[i].ph \in {"ref", "ctl"}
        /\ calls[EndOf(i)].ev = "exit"}

\* every reference and control pass that returned called the same pass on
\* each registered submodule of its node once, in registration order
ChildrenOnceInOrder ==
    \A i \in PassesReturned : CalledFrom(i, i + 1, EndOf(i)) = SubsOf(calls[i].n)

\* C25 (as stated): in the reference pass and in the control pass every node
\* calls the same pass on each of its registered submodules exactly once, in
\* registration order, before its own work: the calls a pass makes are
\* those on the submodules of its node, in their order, and no others.
C25_SubmodulesOnceInOrder == ChildrenOnceInOrder

\* C25 (the part that holds): this is so for every node but an
\* instrumentation loop function; the reference pass of a loop function
\* that has an object calls the reference pass of its associations once
\* through the pass of ParserModule and once more in its own loop.
C25_OnceExceptLoopFunction ==
    \A i \in PassesReturned :
        LET n == calls[i].n
            again == /\ Cls(doc, n) = "InstrumentationLoopFunction"
                     /\ calls[i].ph = "ref"
                     /\ ps[n].obj # NoObj
                     /\ ~Fault(doc, n, "ref")
        IN  CalledFrom(i, i + 1, EndOf(i)) =
                IF again THEN SubsOf(n) \o SubsOf(n) ELSE SubsOf(n)

\* a load ended in which the reference pass of an instrumentation loop
\* function with two associations made four calls
C25_AssociationsCalledTwice ==
    /\ pc = "done"
    /\ doc.fault = NoFault
    /\ \E i \in PassesReturned :
          /\ Cls(doc, calls[i].n) = "InstrumentationLoopFunction"
          /\ Len(CalledFrom(i, i + 1, EndOf(i))) = 4

\* a load ended in which the reference and the control pass of a segment
\* with three elements called them once each, in their order
C25_SegmentCalledOnce ==
    /\ pc = "done"
    /\ \E i \in PassesReturned :
          /\ Cls(doc, calls[i].n) = "PipingNetworkSegment"
          /\ Len(SubsOf(calls[i].n)) = 3
          /\ CalledFrom(i, i + 1, EndOf(i)) = SubsOf(calls[i].n)


(***************************************************************************)
(* The direction of a segment: _infer_is_reversed and the reversal in the  *)
(* reference pass of PipingNetworkSegmentParser.                           *)
(***************************************************************************)

\* the reference pass of segment n ran its own work: the segment has an
\* object and an id, and no failure was put into the pass
SegmentReferenced(n) ==
    /\ pc = "referenced"
    /\ ps[n].obj # NoObj
    /\ ps[n].pid # NoId
    /\ ~Fault(doc, n, "ref")

\* the item list, the connection list and the element sequence of segment n
\* are those of the compositional pass in reverse (kept = FALSE) or as they
\* were (kept = TRUE)
ListsOf(st, n) ==
    <<st.heap[st.ps[n].obj].val.items, st.heap[st.ps[n].obj].val.connections,
      st.ps[n].elems>>
ListsReversed(n) ==
    LET c == ListsOf(Composed(doc), n)
    IN  ListsOf(Here, n) = <<Reverse(c[1]), Reverse(c[2]), Reverse(c[3])>>
ListsKept(n) == ListsOf(Here, n) = ListsOf(Composed(doc), n)

\* the connections of segment n lie between their neighbours in the element
\* sequence as it is now: a connection behind an item has it as source,
\* a connection before an item has it as target
BetweenNeighbours(n) ==
    LET E == ps[n].elems
    IN  \A i \in 1..Len(E) :
            (E[i] # NoObj /\ IsConnection(heap, E[i])) =>
                /\ (i > 1 /\ IsItem(heap, E[i - 1])) =>
                        Get(heap, E[i], "sourceItem") = E[i - 1]
                /\ (i < Len(E) /\ IsItem(heap, E[i + 1])) =>
                        Get(heap, E[i], "targetItem") = E[i + 1]

\* the test of _infer_is_reversed on the objects the compositional pass
\* registered: FromID names the last element or ToID names the first
NamesLast(n) ==
    LET E == Composed(doc).ps[n].elems
    IN  /\ Len(E) > 0 /\ Resolved(doc.els[n].fromId) # NoObj
        /\ Resolved(doc.els[n].fromId) = E[Len(E)]
NamesFirst(n) ==
    LET E == Composed(doc).ps[n].elems
    IN  /\ Len(E) > 0 /\ Resolved(doc.els[n].toId) # NoObj
        /\ Resolved(doc.els[n].toId) = E[1]

\* C26: in the reference pass of a segment the item list, the connection
\* list and the element sequence are reversed if the object registered under
\* FromID is the last element of the sequence or the object registered under
\* ToID is the first, and the endpoints of the connections are assigned in
\* the reversed sequence.
C26_ReversedBeforeEndpoints ==
    pc = "referenced" =>
        \A n \in Segments :
            (SegmentReferenced(n) /\ (NamesLast(n) \/ NamesFirst(n))) =>
                ListsReversed(n) /\ BetweenNeighbours(n)

\* a segment item, center line, item whose FromID names the last item and
\* whose ToID names nothing, reversed, the center line lying between the
\* items in the new order
C26_Witness ==
    /\ pc = "referenced"
    /\ \E n \in Segments :
        /\ SegmentReferenced(n)
        /\ NamesLast(n) /\ ~NamesFirst(n)
        /\ Len(ps[n].elems) = 3
        /\ IsConnection(heap, ps[n].elems[2])
        /\ ps[n].elems[1] = Resolved(doc.els[n].fromId)
        /\ Get(heap, ps[n].elems[2], "sourceItem") = ps[n].elems[1]
        /\ ListsReversed(n) /\ ~ListsKept(n)


\* C27 (as stated): a segment that declares no FromID and no ToID, or whose
\* FromID and ToID are not registered, keeps its items, its connections and
\* its element sequence in source order, also when its first or last item
\* failed to compose.
C27_NotReversedWithoutEnds ==
    pc = "referenced" =>
        \A n \in Segments :
            (/\ SegmentReferenced(n)
             /\ Len(ps[n].elems) > 0
             /\ \/ doc.els[n].fromId = NoId /\ doc.els[n].toId = NoId
                \/ /\ Resolved(doc.els[n].fromId) = NoObj
                   /\ Resolved(doc.els[n].toId) = NoObj) => ListsKept(n)

\* C27 (the part that holds): a segment is not reversed when what the
\* registry returns for FromID (an object, or None) is not the last entry of
\* the element sequence and what it returns for ToID is not the first; an
\* entry of a failed element is None.
C27_KeptUnlessAnEndMatches ==
    pc = "referenced" =>
        \A n \in Segments :
            LET E == Composed(doc).ps[n].elems
            IN  (/\ SegmentReferenced(n)
                 /\ Len(E) > 0
                 /\ Resolved(doc.els[n].fromId) # E[Len(E)]
                 /\ Resolved(doc.els[n].toId) # E[1]) =>
                     ListsKept(n) /\ BetweenNeighbours(n)

\* a segment of three items without FromID and ToID whose last item failed
\* to compose, reversed: the two items that were composed changed places
C27_ReversedByFailedItem ==
    /\ pc = "referenced"
    /\ doc.fault = NoFault
    /\ \E n \in Segments :
        /\ SegmentReferenced(n)
        /\ doc.els[n].fromId = NoId /\ doc.els[n].toId = NoId
        /\ Len(ps[n].elems) = 5
        /\ ps[n].elems[1] = NoObj
        /\ Len(heap[ps[n].obj].val.items) = 2
        /\ ListsReversed(n) /\ ~ListsKept(n)
        /\ heap[ps[n].obj].val.items # Composed(doc).heap[ps[n].obj].val.items

\* a segment of two items and a center line that names ends the registry
\* does not know, left as it was written
C27_KeptWithUnknownEnds ==
    /\ pc = "referenced"
    /\ \E n \in Segments :
        /\ SegmentReferenced(n)
        /\ Len(ps[n].elems) = 3
        /\ doc.els[n].fromId # NoId
        /\ Resolved(doc.els[n].fromId) = NoObj
        /\ Resolved(doc.els[n].toId) = NoObj
        /\ ListsKept(n) /\ ~ListsReversed(n)


(***************************************************************************)
(* The endpoints of the connections of a segment.                          *)
(***************************************************************************)

\* the connection at position i of the element sequence of segment n lies
\* between the items next to it: its source is the item before it with the
\* main outflow node of that item, its target the item behind it with the
\* main inflow node of that item
Linked(n, i) ==
    LET E == ps[n].elems
    IN  /\ (i > 1 /\ E[i - 1] # NoObj /\ IsItem(heap, E[i - 1])) =>
                /\ Get(heap, E[i], "sourceItem") = E[i - 1]
                /\ Get(heap, E[i], "sourceNode") = get_main_outflow_node(ps[E[i - 1]])
        /\ (i < Len(E) /\ E[i + 1] # NoObj /\ IsItem(heap, E[i + 1])) =>
                /\ Get(heap, E[i], "targetItem") = E[i + 1]
                /\ Get(heap, E[i], "targetNode") = get_main_inflow_node(ps[E[i + 1]])

\* the positions of the connections in the element sequence of segment n
ConnectionsOf(n) ==
    {i \in 1..Len(ps[n].elems) :
        ps[n].elems[i] # NoObj /\ IsConnection(heap, ps[n].elems[i])}

\* the reference pass of segment n ran its own work in this load
ReferencePassDone(n) ==
    /\ ps[n].obj # NoObj
    /\ ps[n].pid # NoId
    /\ ~Fault(doc, n, "ref")

\* C28: after the reference pass every connection at position i of the
\* element sequence of a segment has as source the item at position i-1
\* with that item's main outflow node, and as target the item at position
\* i+1 with that item's main inflow node, whenever those neighbours are
\* items.
C28_ConnectionsLinkNeighbours ==
    pc \in {"referenced", "done"} =>
        \A n \in Segments :
            ReferencePassDone(n) => \A i \in ConnectionsOf(n) : Linked(n, i)

\* a segment item, center line, item after the reference pass: the center
\* line leads from the second node of the first item to the first node of
\* the last, and these are four different objects
C28_Witness ==
    /\ pc = "referenced"
    /\ \E n \in Segments :
        /\ ReferencePassDone(n)
        /\ Len(ps[n].elems) = 3
        /\ ConnectionsOf(n) = {2}
        /\ Linked(n, 2)
        /\ Get(heap, ps[n].elems[2], "sourceItem") = ps[n].elems[1]
        /\ Get(heap, ps[n].elems[2], "targetItem") = ps[n].elems[3]
        /\ Get(heap, ps[n].elems[2], "sourceNode") = ps[ps[n].elems[1]].nodes[2]
        /\ Get(heap, ps[n].elems[2], "targetNode") = ps[ps[n].elems[3]].nodes[1]
        /\ ps[n].elems[1] # ps[n].elems[3]


(***************************************************************************)
(* The ends of a segment given by FromID / FromNode and ToID / ToNode.     *)
(***************************************************************************)

\* the nodes of item r that index k can stand for: nodes[k] as the
\* reference pass writes it, counted from 0, or the k-th node counted from 1
NodesAt(r, k) ==
    LET nodes == heap[r].val.nodes
    IN  {nodes[i] : i \in {k, k + 1} \cap (1..Len(nodes))}

\* the end of segment n on side "source" ("target") is declared by a
\* registered FromID (ToID) and an integer FromNode (ToNode)
EndDeclared(n, side) ==
    LET e == doc.els[n]
        id == IF side = "source" THEN e.fromId ELSE e.toId
        k == IF side = "source" THEN e.fromNode ELSE e.toNode
    IN  /\ id # NoId /\ Resolved(id) # NoObj
        /\ k \notin {NoIdx, BadIdx}
        /\ "nodes" \in DOMAIN heap[Resolved(id)].val

\* the end of segment n on that side is the declared item and its node of
\* the declared index, and a connection that is the first (last) element has
\* the same item and node as source (target)
EndBound(n, side) ==
    LET e == doc.els[n]
        id == IF side = "source" THEN e.fromId ELSE e.toId
        k == IF side = "source" THEN e.fromNode ELSE e.toNode
        el == EndElement(ps[n], side)
    IN  /\ Get(heap, ps[n].obj, EndItem(side)) = Resolved(id)
        /\ Get(heap, ps[n].obj, EndNode(side)) \in NodesAt(Resolved(id), k)
        /\ (el # NoObj /\ IsConnection(heap, el)) =>
                /\ Get(heap, el, EndItem(side)) = Resolved(id)
                /\ Get(heap, el, EndNode(side)) = Get(heap, ps[n].obj, EndNode(side))

\* C29 (as stated): when a segment declares FromNode (ToNode) as a valid
\* integer together with a registered FromID (ToID), the source (target)
\* node of the segment is the node at that index of the resolved source
\* (target) item, and a connection at the start (end) of the sequence is
\* bound to the same item and node.
C29_EndNodeByIndex ==
    (pc = "referenced" /\ doc.fault = NoFault) =>
        \A n \in Segments : \A side \in {"source", "target"} :
            (/\ ReferencePassDone(n) /\ BoundaryAt(n, "ref") = {}
             /\ Len(ps[n].elems) > 0 /\ EndDeclared(n, side)) => EndBound(n, side)

\* C29 (what the loader does): no segment parser keeps an index, whatever
\* FromNode and ToNode are, and a segment whose FromID (ToID) is registered
\* gets that object as source (target) item and no source (target) node
\* when its reference pass ends without a failure; a connection at the start
\* (end) gets the same item and no node.
C29_IndexNeverKept ==
    (pc = "referenced" /\ doc.fault = NoFault) =>
        \A n \in Segments : \A side \in {"source", "target"} :
            LET id == IF side = "source" THEN doc.els[n].fromId ELSE doc.els[n].toId
                el == EndElement(ps[n], side)
            IN  /\ ps[n].fromNode = NoIdx /\ ps[n].toNode = NoIdx
                /\ (/\ ReferencePassDone(n) /\ BoundaryAt(n, "ref") = {}
                    /\ Len(ps[n].elems) > 0
                    /\ id # NoId /\ Resolved(id) # NoObj
                    /\ IsItem(heap, Resolved(id))) =>
                        /\ Get(heap, ps[n].obj, EndItem(side)) = Resolved(id)
                        /\ Get(heap, ps[n].obj, EndNode(side)) = NoObj
                        /\ (el # NoObj /\ IsConnection(heap, el)) =>
                                /\ Get(heap, el, EndItem(side)) = Resolved(id)
                                /\ Get(heap, el, EndNode(side)) = NoObj

\* a segment center line, item, item with FromID naming the first item and
\* FromNode = 1, after the reference pass: the item has two nodes, it is the
\* source of the segment and of the center line, and neither has a source
\* node
C29_FromNodeIgnored ==
    /\ pc = "referenced"
    /\ doc.fault = NoFault
    /\ \E n \in Segments :
        /\ ReferencePassDone(n)
        /\ BoundaryAt(n, "ref") = {}
        /\ doc.els[n].fromNode = 1
        /\ EndDeclared(n, "source")
        /\ Len(heap[Resolved(doc.els[n].fromId)].val.nodes) = 2
        /\ IsConnection(heap, ps[n].elems[1])
        /\ Get(heap, ps[n].obj, "sourceItem") = Resolved(doc.els[n].fromId)
        /\ Get(heap, ps[n].elems[1], "sourceItem") = Resolved(doc.els[n].fromId)
        /\ Get(heap, ps[n].obj, "sourceNode") = NoObj
        /\ Get(heap, ps[n].elems[1], "sourceNode") = NoObj


(***************************************************************************)
(* The main inflow and outflow node of a piping item.                      *)
(***************************************************************************)

\* the piping items with a ConnectionPoints block whose compositional pass
\* was called in this load, the block of an item, the number of its nodes
\* and its k-th node
ItemsComposed ==
    {n \in Nodes(doc) : /\ Cls(doc, n) \in ItemTags
                        /\ doc.els[n].id # NoId
                        /\ KidsOf(doc, n, {"ConnectionPoints"}) # <<>>
                        /\ n \in Entered(calls, "comp")}
PointsOf(n) == doc.els[KidsOf(doc, n, {"ConnectionPoints"})[1]]
NodeCount(n) == Len(PointsOf(n).kids)
NodeOf(n, k) == IF k \in 1..NodeCount(n) THEN PointsOf(n).kids[k] ELSE NoObj

\* the explicit index of the direction ("in" or "out"), the number of the
\* default node and the main node the parser of item n answers with
FlowIndex(n, dir) == IF dir = "in" THEN PointsOf(n).flowIn ELSE PointsOf(n).flowOut
DefaultNode(dir) == IF dir = "in" THEN 1 ELSE 2
MainNode(n, dir) ==
    IF dir = "in" THEN get_main_inflow_node(ps[n]) ELSE get_main_outflow_node(ps[n])

\* the ERROR entries of item n about an index of that direction that is out
\* of bounds
OutOfBounds(n, dir) ==
    {i \in ErrorsOf(n) :
        /\ errors[i].msg.kind = "flow index out of bounds"
        /\ errors[i].msg.who = (IF dir = "in" THEN "mainIn" ELSE "mainOut")}

\* index k of that direction selects node k of item n; no index selects the
\* default node; the index is refused: one ERROR, the default node, and the
\* item created
Selects(n, dir) ==
    /\ ps[n].obj # NoObj
    /\ MainNode(n, dir) = NodeOf(n, FlowIndex(n, dir))
    /\ OutOfBounds(n, dir) = {}
Defaults(n, dir) ==
    /\ ps[n].obj # NoObj
    /\ MainNode(n, dir) = NodeOf(n, DefaultNode(dir))
Refused(n, dir) ==
    /\ ps[n].obj # NoObj
    /\ heap[ps[n].obj].val.nodes = PointsOf(n).kids
    /\ MainNode(n, dir) = NodeOf(n, DefaultNode(dir))
    /\ Cardinality(OutOfBounds(n, dir)) = 1

\* C30 (as stated): for every piping item with n nodes an explicit FlowIn /
\* FlowOut index k with 1 <= k <= n selects node k as main inflow / outflow
\* node; with no explicit index the main inflow node is the first node and
\* the main outflow node the second; an explicit index outside 1..n,
\* 0 and negative values included, logs an ERROR and falls back to that
\* default, and the item is still created.
C30_FlowIndexSelectsOrFallsBack ==
    (pc \in {"composed", "referenced", "done", "aborted"} /\ doc.fault = NoFault) =>
        \A n \in ItemsComposed : \A dir \in {"in", "out"} :
            LET k == FlowIndex(n, dir)
            IN  CASE k = BadIdx -> TRUE
                  [] k = NoIdx -> Defaults(n, dir)
                  [] k \in 1..NodeCount(n) -> Selects(n, dir)
                  [] OTHER -> Refused(n, dir)

\* C30 (the part that holds): in a load that was not aborted, for an item
\* whose compositional pass did not fail, an index k with 1 <= k <= n selects
\* node k, no index selects the default, and an index above n logs one ERROR
\* and falls back to the default, the item being created with all its nodes.
C30_IndexAboveCountFallsBack ==
    (pc \in {"composed", "referenced", "done"} /\ doc.fault = NoFault) =>
        \A n \in ItemsComposed : \A dir \in {"in", "out"} :
            LET k == FlowIndex(n, dir)
            IN  BoundaryAt(n, "comp") = {} =>
                    CASE k = BadIdx -> TRUE
                      [] k = NoIdx -> Defaults(n, dir)
                      [] k \in 1..NodeCount(n) -> Selects(n, dir)
                      [] k > NodeCount(n) -> Refused(n, dir)
                      [] OTHER -> TRUE

\* an item of two nodes with FlowIn = 0 after the compositional pass: its
\* main inflow node is its last node, and no ERROR was logged for it
C30_ZeroSelectsLastNode ==
    /\ pc = "composed"
    /\ doc.fault = NoFault
    /\ \E n \in ItemsComposed :
        /\ FlowIndex(n, "in") = 0
        /\ NodeCount(n) = 2
        /\ ps[n].obj # NoObj
        /\ MainNode(n, "in") = NodeOf(n, 2)
        /\ ErrorsOf(n) = {}

\* a load of an item with FlowIn = -1 that ended with InternalParserError:
\* no model, and no object of the item
C30_MinusOneAbortsLoad ==
    /\ pc = "aborted"
    /\ raised = InternalParserError
    /\ doc.fault = NoFault
    /\ \E n \in ItemsComposed :
        /\ FlowIndex(n, "in") = 0 - 1
        /\ ps[n].obj = NoObj

\* an item of two nodes with FlowIn = 3 and FlowOut = 1 after the
\* compositional pass: one ERROR, the first node as main inflow node, the
\* first node as main outflow node
C30_Witness ==
    /\ pc = "composed"
    /\ doc.fault = NoFault
    /\ \E n \in ItemsComposed :
        /\ FlowIndex(n, "in") = 3 /\ FlowIndex(n, "out") = 1
        /\ NodeCount(n) = 2
        /\ Refused(n, "in")
        /\ Selects(n, "out")
        /\ MainNode(n, "in") = MainNode(n, "out")


(***************************************************************************)
(* The ends a segment infers from its own first and last element.          *)
(***************************************************************************)

\* the id segment n declares for that end, and the main node of item r an
\* inferred end of that side takes: the inflow node at the source, the
\* outflow node at the target
EndId(n, side) == IF side = "source" THEN doc.els[n].fromId ELSE doc.els[n].toId
EndMainNode(r, side) ==
    IF side = "source" THEN get_main_inflow_node(ps[r]) ELSE get_main_outflow_node(ps[r])

\* nothing was resolved for that end of segment n, and the element at that
\* end of the sequence is an item
EndOpen(n, side) ==
    /\ Len(ps[n].elems) > 0
    /\ Resolved(EndId(n, side)) = NoObj
    /\ EndElement(ps[n], side) # NoObj
    /\ IsItem(heap, EndElement(ps[n], side))

\* that end of segment n is the item at the end of the sequence with its
\* main node
EndIsOwnItem(n, side) ==
    /\ Get(heap, ps[n].obj, EndItem(side)) = EndElement(ps[n], side)
    /\ Get(heap, ps[n].obj, EndNode(side)) = EndMainNode(EndElement(ps[n], side), side)

\* C31 (as stated): after the reference pass of a composed segment, if no
\* source (target) item was resolved from FromID (ToID) and the first (last)
\* element of the sequence is an item, that item is the source (target) of
\* the segment with its main inflow (outflow) node, and the reference pass of
\* the segment ended without an ERROR.
C31_OpenEndTakesOwnItem ==
    (pc = "referenced" /\ doc.fault = NoFault) =>
        \A n \in Segments : \A side \in {"source", "target"} :
            (ReferencePassDone(n) /\ EndOpen(n, side)) =>
                EndIsOwnItem(n, side) /\ BoundaryAt(n, "ref") = {}

\* C31 (the part that holds): this is so when neither the first nor the last
\* element of the sequence is an element that failed to compose, and
\* FromID and ToID name nothing or an item.
C31_OpenEndTakesOwnItemIfEndsComposed ==
    (pc = "referenced" /\ doc.fault = NoFault) =>
        \A n \in Segments :
            (/\ ReferencePassDone(n)
             /\ Len(ps[n].elems) > 0
             /\ ps[n].elems[1] # NoObj
             /\ ps[n].elems[Len(ps[n].elems)] # NoObj
             /\ \A side \in {"source", "target"} :
                    \/ Resolved(EndId(n, side)) = NoObj
                    \/ IsItem(heap, Resolved(EndId(n, side)))) =>
                /\ BoundaryAt(n, "ref") = {}
                /\ \A side \in {"source", "target"} :
                       EndOpen(n, side) => EndIsOwnItem(n, side)

\* a segment of two items without FromID and ToID whose second item failed to
\* compose, after the reference pass: the item that was composed is the last
\* element, the pass of the segment left an ERROR, and the segment has
\* neither a source nor a target
C31_FailedItemLeavesNoEnds ==
    /\ pc = "referenced"
    /\ doc.fault = NoFault
    /\ \E n \in Segments :
        /\ ReferencePassDone(n)
        /\ doc.els[n].fromId = NoId /\ doc.els[n].toId = NoId
        /\ EndOpen(n, "target")
        /\ ps[n].elems[1] = NoObj
        /\ BoundaryAt(n, "ref") # {}
        /\ Get(heap, ps[n].obj, "sourceItem") = NoObj
        /\ Get(heap, ps[n].obj, "targetItem") = NoObj

\* a segment item, center line, item without FromID and ToID after the
\* reference pass: the first item with its first node is the source, the
\* last item with its second node the target
C31_BothEndsInferred ==
    /\ pc = "referenced"
    /\ doc.fault = NoFault
    /\ \E n \in Segments :
        /\ ReferencePassDone(n)
        /\ doc.els[n].fromId = NoId /\ doc.els[n].toId = NoId
        /\ Len(ps[n].elems) = 3
        /\ EndOpen(n, "source") /\ EndOpen(n, "target")
        /\ EndIsOwnItem(n, "source") /\ EndIsOwnItem(n, "target")
        /\ Get(heap, ps[n].obj, "sourceNode") = ps[ps[n].elems[1]].nodes[1]
        /\ Get(heap, ps[n].obj, "targetNode") = ps[ps[n].elems[3]].nodes[2]
        /\ BoundaryAt(n, "ref") = {}


(***************************************************************************)
(* The links a system infers between its adjacent segments.                *)
(***************************************************************************)

\* the systems of the document that have an object, and the segments of
\* system n in document order
SystemsBuilt ==
    {n \in Nodes(doc) : Cls(doc, n) = "PipingNetworkSystem" /\ ps[n].obj # NoObj}
SegmentsOf(n) == KidsOf(doc, n, {"PipingNetworkSegment"})

\* the graph when the reference passes of the segments of system n are over
\* and the system has not yet looked at them
BeforeLinks(n) ==
    DefaultPass(doc, "ref", n, SegmentsOf(n), Return(Composed(doc), NoObj)).heap

\* the positions i at which segment i and segment i + 1 of system n both
\* have an object
AdjacentPairs(n) ==
    {i \in 1..(Len(SegmentsOf(n)) - 1) :
        ps[SegmentsOf(n)[i]].obj # NoObj /\ ps[SegmentsOf(n)[i + 1]].obj # NoObj}

\* in graph h segment b has no item at that end ("source" or "target") and
\* the segment a next to it has, at its other end, one of its own items
LinkDue(h, a, b, side) ==
    LET other == IF side = "source" THEN "targetItem" ELSE "sourceItem"
    IN  /\ Get(h, b, EndItem(side)) = NoObj
        /\ Get(h, a, other) # NoObj
        /\ Get(h, a, other) \in Range(h[a].val.items)

\* the pairs of system n at which a source is due to the second segment, and
\* those at which a target is due to the first
SourcesDue(n) ==
    {i \in AdjacentPairs(n) :
        LinkDue(BeforeLinks(n), SegmentsOf(n)[i], SegmentsOf(n)[i + 1], "source")}
TargetsDue(n) ==
    {i \in AdjacentPairs(n) :
        LinkDue(BeforeLinks(n), SegmentsOf(n)[i + 1], SegmentsOf(n)[i], "target")}

\* the INFO entries of system n about an inferred connection
LinksLogged(n) ==
    {i \in 1..Len(errors) : /\ errors[i].src = n /\ errors[i].level = "INFO"
                            /\ errors[i].msg.kind = "inferred connection"}

\* every link that is due in system n was made, and one INFO was logged for
\* each
LinksMade(n) ==
    /\ \A i \in SourcesDue(n) :
            Get(heap, SegmentsOf(n)[i + 1], "sourceItem") =
                Get(BeforeLinks(n), SegmentsOf(n)[i], "targetItem")
    /\ \A i \in TargetsDue(n) :
            Get(heap, SegmentsOf(n)[i], "targetItem") =
                Get(BeforeLinks(n), SegmentsOf(n)[i + 1], "sourceItem")
    /\ Cardinality(LinksLogged(n)) =
            Cardinality(SourcesDue(n)) + Cardinality(TargetsDue(n))

\* C32 (as stated): in the reference pass of a system every segment that has
\* no source item and whose preceding segment has one of its own items as
\* target item gets that item as source, and every segment with no target
\* item gets the source item of the following segment when that is one of the
\* following segment's own items; one INFO is logged per inferred link; this
\* holds for every adjacent pair, also when another segment of the system
\* failed to compose.
C32_AdjacentSegmentsLinked ==
    (pc = "referenced" /\ doc.fault.ph \in {"none", "comp"}) =>
        \A n \in SystemsBuilt : LinksMade(n)

\* C32 (the part that holds): this is so in a system all of whose segments
\* were composed.
C32_LinkedWhenAllComposed ==
    (pc = "referenced" /\ doc.fault.ph \in {"none", "comp"}) =>
        \A n \in SystemsBuilt :
            (\A i \in 1..Len(SegmentsOf(n)) : ps[SegmentsOf(n)[i]].obj # NoObj) =>
                LinksMade(n)

\* a system of three segments, the first without an ID, after the reference
\* pass: the second segment has no target although the third has its own
\* first item as source, and nothing was logged
C32_LinkMissedBehindFailedSegment ==
    /\ pc = "referenced"
    /\ doc.fault = NoFault
    /\ \E n \in SystemsBuilt :
        /\ Len(SegmentsOf(n)) = 3
        /\ doc.els[SegmentsOf(n)[1]].id = NoId
        /\ TargetsDue(n) = {2}
        /\ Get(heap, SegmentsOf(n)[2], "targetItem") = NoObj
        /\ LinksLogged(n) = {}

\* a system of three segments, the first of which has an ID and failed to
\* compose, after the reference pass: the pass of the system left an ERROR,
\* and the link that is due between the second and the third was not made
C32_LoopLeftAtFailedSegment ==
    /\ pc = "referenced"
    /\ doc.fault.ph = "comp"
    /\ \E n \in SystemsBuilt :
        /\ Len(SegmentsOf(n)) = 3
        /\ doc.fault.n = SegmentsOf(n)[1]
        /\ BoundaryAt(n, "ref") # {}
        /\ TargetsDue(n) = {2}
        /\ Get(heap, SegmentsOf(n)[2], "targetItem") = NoObj

\* a system of three composed segments after the reference pass in which a
\* source and a target were inferred and two INFO entries logged
C32_Witness ==
    /\ pc = "referenced"
    /\ doc.fault = NoFault
    /\ \E n \in SystemsBuilt :
        /\ Len(SegmentsOf(n)) = 3
        /\ AdjacentPairs(n) = {1, 2}
        /\ SourcesDue(n) # {} /\ TargetsDue(n) # {}
        /\ Cardinality(LinksLogged(n)) = 2
        /\ LinksMade(n)


(***************************************************************************)
(* add_by_inferring_type, called on its own: a graph of an owner (object   *)
(* 1) and two objects of one class (2 and 3), some fields of the owner     *)
(* holding object 3 already, on which the function is called up to MaxAdds *)
(* times with object 2 or 3.                                               *)
(***************************************************************************)
MaxAdds == 2

AddOwners == {"Nozzle", "Vessel", "Pipe", "PipingNetworkSegment", "PipingComponent"}
AddClasses == {"Chamber", "Nozzle", "PipingNode", "PipingComponent", "Pipe"}

\* the owner with object 3 in the fields named in held, where its type
\* accepts object 3
OwnerHolding(owner, cls, held) ==
    [NewObj(owner, <<>>) EXCEPT
        !.val = [f \in DOMAIN @ |->
                    IF f \in held /\ \E fld \in Range(Schema(owner)) :
                                        fld.name = f /\ cls \in fld.accepts
                    THEN <<3>> ELSE @[f]]]

AddHeaps ==
    {<<OwnerHolding(owner, cls, held), NewObj(cls, <<>>), NewObj(cls, <<>>)>> :
        owner \in AddOwners, cls \in AddClasses,
        held \in {{}, {"chamber"}, {"sourceItem"}, {"sourceItem", "targetItem"},
                  {"nodes"}, {"items"}}}

AddInit ==
    /\ doc = NoDoc
    /\ pc = "idle"
    /\ model = NoObj
    /\ errors = <<>>
    /\ objects = <<>>
    /\ ps = <<>>
    /\ heap \in AddHeaps
    /\ calls = <<>>
    /\ writes = <<>>
    /\ returned = NoObj
    /\ raised = NoExc
    /\ loads = 0
    /\ call = NoCall
    /\ result = Nothing

\* add_by_inferring_type(x, owner) on the graph; the call keeps the graph it
\* was made on
AddByInferringType ==
    /\ loads < MaxAdds
    /\ \E x \in {2, 3} :
        LET r == add_by_inferring_type(heap, x, 1)
        IN  /\ call' = [op |-> "add_by_inferring_type",
                        arg |-> [x |-> x, owner |-> 1, heap |-> heap]]
            /\ heap' = r.heap
            /\ raised' = IF r.ok THEN NoExc ELSE ValueError
            /\ result' = IF r.ok THEN [kind |-> "field", v |-> r.field] ELSE Nothing
    /\ loads' = loads + 1
    /\ UNCHANGED <<doc, pc, model, errors, objects, ps, calls, writes, returned>>

AddNext == AddByInferringType

AddSpec == AddInit /\ [][AddNext]_vars

\* the positions, in declaration order, of the fields of the owner of the
\* call that were unset and accept x, or are lists that accept x
FieldsOpen ==
    LET h == call.arg.heap
        flds == Schema(h[call.arg.owner].cls)
    IN  {i \in 1..Len(flds) :
            /\ h[call.arg.x].cls \in flds[i].accepts
            /\ flds[i].many \/ h[call.arg.owner].val[flds[i].name] = <<>>}

\* C33: add_by_inferring_type(x, owner) assigns x to the first field of the
\* owner, in declaration order, that is either unset and accepts x or is a
\* list that accepts x appended; it changes no other field of the owner and
\* returns the name of that field.
C33_FirstOpenFieldTakesIt ==
    (call.op = "add_by_inferring_type" /\ FieldsOpen # {}) =>
        LET h == call.arg.heap
            o == call.arg.owner
            flds == Schema(h[o].cls)
            i == CHOOSE k \in FieldsOpen : \A j \in FieldsOpen : k <= j
        IN  /\ raised = NoExc
            /\ result = [kind |-> "field", v |-> flds[i].name]
            /\ heap[o].val[flds[i].name] =
                   IF flds[i].many THEN Append(h[o].val[flds[i].name], call.arg.x)
                   ELSE <<call.arg.x>>
            /\ \A f \in DOMAIN h[o].val \ {flds[i].name} : heap[o].val[f] = h[o].val[f]
            /\ DOMAIN heap[o].val = DOMAIN h[o].val
            /\ \A r \in DOMAIN h \ {o} : heap[r] = h[r]

\* a pipe whose source item was set took a piping component as target item:
\* the third field in declaration order, the first two not being open
C33_Witness ==
    /\ call.op = "add_by_inferring_type"
    /\ call.arg.heap[1].cls = "Pipe"
    /\ call.arg.heap[1].val.sourceItem = <<3>>
    /\ call.arg.x = 2
    /\ FieldsOpen = {3}
    /\ result = [kind |-> "field", v |-> "targetItem"]
    /\ heap[1].val.targetItem = <<2>>
    /\ heap[1].val.sourceItem = <<3>>


(***************************************************************************)
(* The association a control pass could not add.                           *)
(***************************************************************************)
\* the ERROR entries "could not be added in control pass" of the load
NotAdded == {i \in 1..Len(errors) : errors[i].msg.kind = "assoc_not_added_ctrl"}
\* the object of the parser that logged entry i, and the object it names
Mine(i) == ps[errors[i].src].obj
Other(i) == objects[errors[i].msg.arg]
\* whether add_by_inferring_type finds a field of the owner for x
Fits(x, owner) == add_by_inferring_type(heap, x, owner).ok
\* the entries of the control pass about an association it added
Added == {j \in 1..Len(errors) :
             errors[j].msg.kind \in {"assoc_added_ctrl", "assoc_added_ctrl reverse"}}
\* the parser and the association an entry is about
About(i) == <<errors[i].src, errors[i].msg.arg>>
\* every field of object r that the control pass changed was changed for an
\* association other than that of entry i, which an INFO entry reports
KeptBy(i, r) ==
    \A f \in DOMAIN heap[r].val :
        heap[r].val[f] # Referenced(doc).heap[r].val[f] =>
            \E j \in Added : /\ errors[j].msg.fld = f
                              /\ About(j) # About(i)
                              /\ r \in {Mine(j), Other(j)}
\* entry i is the only one of its parser about its association, and its
\* failed assignment changed neither object
LoggedOnceAndKept(i) ==
    /\ Cardinality({j \in NotAdded : About(j) = About(i)}) = 1
    /\ KeptBy(i, Mine(i))
    /\ KeptBy(i, Other(i))
\* the parsers whose control pass retries with the two objects swapped
RetriesSwapped(n) == doc.els[n].cls \in {"Nozzle", "Equipment"}

\* C34 (as stated): the ERROR "could not be added in control pass" is logged
\* only after the assignment failed forward and with the two objects swapped:
\* neither object has a field for the other; the entry is the only one and
\* both objects are unchanged.
C34_SwappedRetryBeforeError ==
    pc = "done" =>
        \A i \in NotAdded :
            /\ ~Fits(Mine(i), Other(i))
            /\ ~Fits(Other(i), Mine(i))
            /\ LoggedOnceAndKept(i)

\* C34 (the part that holds): the ERROR is logged only when the forward
\* assignment finds no field, in the nozzle and equipment parsers only when
\* the swapped one finds none either; it is logged once and both objects are
\* unchanged.
C34_ErrorLeavesBothUnchanged ==
    pc = "done" =>
        \A i \in NotAdded :
            /\ ~Fits(Mine(i), Other(i))
            /\ RetriesSwapped(errors[i].src) => ~Fits(Other(i), Mine(i))
            /\ LoggedOnceAndKept(i)

\* a piping component reported an association that the swapped assignment
\* would have added
C34_ComponentNotRetried ==
    /\ pc = "done"
    /\ \E i \in NotAdded : doc.els[errors[i].src].cls = "PipingComponent"
                           /\ Fits(Other(i), Mine(i))

\* a nozzle or equipment item reported an association after both directions
\* failed
C34_Witness ==
    /\ pc = "done"
    /\ \E i \in NotAdded : RetriesSwapped(errors[i].src)


(***************************************************************************)
(* The associations a reference pass leaves to the control pass.           *)
(***************************************************************************)
\* the nodes whose reference and control pass went through their associations
Examining ==
    {n \in 1..Len(doc.els) : /\ doc.els[n].cls \in {"Nozzle", "Equipment"}
                             /\ Built(ps[n])
                             /\ BoundaryAt(n, "ref") = {}
                             /\ BoundaryAt(n, "ctl") = {}}
\* the valid associations of node n
ValidOf(n) == {k \in Range(KidsOf(doc, n, {"Association"})) : is_valid(ps[k])}
\* association k of the equipment item names a nozzle as located in it
NamesNozzle(k) ==
    ps[k].assocType = "is the location of" /\ ClsOf(heap, ps[k].refItem) = "Nozzle"
\* association k of node n is skipped in the reference pass of n as left to
\* the control pass
LeftToControl(n, k) ==
    \/ doc.els[n].cls = "Nozzle" /\ ps[k].assocType = "is the location of"
    \/ doc.els[n].cls = "Equipment" /\ (ps[k].assocType = "is located in" \/ NamesNozzle(k))
\* an edge between the object of n and the object association k names
Edge(n, k) ==
    \/ is_associated_with(heap, ps[n].obj, ps[k].refItem)
    \/ is_associated_with(heap, ps[k].refItem, ps[n].obj)
\* an ERROR of node n about the object association k names
Reported(n, k) ==
    \E i \in 1..Len(errors) : /\ errors[i].src = n
                              /\ errors[i].level = "ERROR"
                              /\ errors[i].msg.arg = ps[k].assocId

\* C35 (as stated): after the control pass every valid association that the
\* reference pass of its node left to the control pass is an edge between the
\* two objects or is reported by an ERROR of the node.
C35_LeftToControlIsExamined ==
    pc = "done" =>
        \A n \in Examining : \A k \in ValidOf(n) :
            LeftToControl(n, k) => Edge(n, k) \/ Reported(n, k)

\* C35 (the part that holds): the same for every association left to the
\* control pass but that of an equipment item naming a nozzle.
C35_ExaminedUnlessNozzleOfEquipment ==
    pc = "done" =>
        \A n \in Examining : \A k \in ValidOf(n) :
            LeftToControl(n, k) /\ ~(doc.els[n].cls = "Equipment" /\ NamesNozzle(k))
                => Edge(n, k) \/ Reported(n, k)

\* an equipment item names the nozzle of another item as located in it, and
\* the load ends with neither an edge between them nor an ERROR about it
C35_NozzleOfEquipmentDropped ==
    /\ pc = "done"
    /\ \E n \in Examining : \E k \in ValidOf(n) :
           /\ doc.els[n].cls = "Equipment" /\ NamesNozzle(k)
           /\ ~Edge(n, k) /\ ~Reported(n, k)

\* an association left to the control pass that only the control pass made an
\* edge, and one it reported
C35_Witness ==
    /\ pc = "done"
    /\ \E n \in Examining : \E k \in ValidOf(n) :
           /\ LeftToControl(n, k) /\ ~(doc.els[n].cls = "Equipment" /\ NamesNozzle(k))
           /\ Edge(n, k)
           /\ \E j \in Added : About(j) = <<n, ps[k].assocId>>
C35_ReportedInControl ==
    /\ pc = "done"
    /\ \E n \in Examining : \E k \in ValidOf(n) :
           /\ LeftToControl(n, k) /\ ~Edge(n, k)
           /\ \E i \in NotAdded : About(i) = <<n, ps[k].assocId>>


(***************************************************************************)
(* The parser tree as the factory returns it.                              *)
(***************************************************************************)
\* parser n holds nothing that a pass decodes or resolves
Undecoded(n) ==
    /\ ps[n].obj = NoObj /\ ps[n].pid = NoId
    /\ ps[n].assocId = NoId /\ ps[n].assocType = NoId /\ ps[n].refItem = NoObj
    /\ ps[n].flowIn = Unparsed /\ ps[n].flowOut = Unparsed
    /\ ps[n].nodes = <<>> /\ ps[n].elems = <<>> /\ ~ps[n].parsed
\* entry i is the ERROR of a segment constructor about an index of its
\* Connection element that is no integer
ConnectionError(i) ==
    /\ Cls(doc, errors[i].src) = "PipingNetworkSegment"
    /\ errors[i].level = "ERROR"
    /\ errors[i].msg.kind = "invalid index"
    /\ \/ errors[i].msg.who = "FromNode" /\ doc.els[errors[i].src].fromNode = BadIdx
       \/ errors[i].msg.who = "ToNode" /\ doc.els[errors[i].src].toNode = BadIdx

ValidBlocks == {i \in 1..Len(call.arg) : call.arg[i].set \in valid_attribute_lists}
\* the field attribute a is parsed for, NoId when it has none
FieldOf(a) ==
    IF FieldName(a.name).ok /\ FieldName(a.name).name \in DOMAIN ModelFields /\ a.value # NoId
    THEN FieldName(a.name).name ELSE NoId
TypeOf(a) == IF FieldOf(a) = NoId THEN NoId ELSE ModelFields[FieldOf(a)]
\* the value of attribute a cannot be coerced to the type of its field
Uncoercible(a) ==
    \/ TypeOf(a) = "int" /\ a.value \notin {"1", "2", "3"}
    \/ TypeOf(a) = "enumeration" /\ a.value \notin EnumMembers
\* attribute a has a value that its field takes
Coercible(a) ==
    \/ TypeOf(a) = "str"
    \/ TypeOf(a) = "int" /\ a.value \in {"1", "2", "3"}
    \/ TypeOf(a) = "enumeration" /\ a.value \in EnumMembers
\* the attributes of block i
AttrsOf(i) == Range(call.arg[i].attrs)
\* block i has an attribute that raises while it is parsed
Broken(i) == \E a \in AttrsOf(i) : Uncoercible(a) \/ ~FieldName(a.name).ok
\* the ERROR entries of the except clause
ParsingErrors == {j \in 1..Len(errors) : errors[j].msg.kind = "Error parsing attributes"}
AttrReturned == AttrDone /\ raised = NoExc

\* C37 (as stated): for every attribute of a block whose value cannot be
\* coerced an ERROR is logged, and every other attribute of the block that
\* has a value its field takes is in the result.
C37_OnlyThatAttributeDropped ==
    AttrReturned =>
        \A i \in ValidBlocks : \A a \in AttrsOf(i) :
            Uncoercible(a) =>
                /\ ParsingErrors # {}
                /\ \A b \in AttrsOf(i) : Coercible(b) => FieldOf(b) \in DOMAIN result

\* C37 (the part that holds): every block with an attribute that cannot be
\* coerced logs one ERROR and yields nothing; the result holds exactly the
\* fields that a block without such an attribute gives a value to.
C37_WholeBlockDropped ==
    AttrReturned =>
        /\ Cardinality(ParsingErrors) = Cardinality({i \in ValidBlocks : Broken(i)})
        /\ \A j \in ParsingErrors : errors[j].level = "ERROR"
        /\ DOMAIN result =
              {FieldOf(a) : a \in {a \in UNION {AttrsOf(i) : i \in ValidBlocks \ {i \in ValidBlocks : Broken(i)}} :
                                      Coercible(a)}}

\* a block with an unknown enumeration value between two attributes that
\* can be decoded: none of them is in the result
C37_OthersOfBlockLost ==
    /\ AttrReturned
    /\ \E i \in ValidBlocks :
          /\ \E a \in AttrsOf(i) : TypeOf(a) = "enumeration" /\ Uncoercible(a)
          /\ \E b \in AttrsOf(i) : Coercible(b) /\ FieldOf(b) \notin DOMAIN result

\* a block with an integer that cannot be parsed next to a block that is
\* decoded
C37_Witness ==
    /\ AttrReturned
    /\ \E i, j \in ValidBlocks :
          /\ \E a \in AttrsOf(i) : TypeOf(a) = "int" /\ Uncoercible(a)
          /\ ~Broken(j)
          /\ \E b \in AttrsOf(j) : Coercible(b) /\ FieldOf(b) \in DOMAIN result
    /\ Cardinality(ParsingErrors) = 1


(***************************************************************************)
(* The fields of multi-language text type.                                 *)
(***************************************************************************)
\* the (language, value) pairs block i gives for a field of multi-language
\* text type, in the order they are written
PairsOf(i) ==
    LET given == SelectSeq(call.arg[i].attrs,
                           LAMBDA a : TypeOf(a) = "MultiLanguageString")
    IN  [k \in 1..Len(given) |-> [language |-> given[k].language, value |-> given[k].value]]
\* the blocks that are decoded and give such pairs
GivingPairs == {i \in ValidBlocks : ~Broken(i) /\ PairsOf(i) # <<>>}
\* the blocks of the call without the attributes of such a field
WithoutPairs ==
    [i \in 1..Len(call.arg) |->
        [call.arg[i] EXCEPT !.attrs = SelectSeq(@, LAMBDA a : TypeOf(a) # "MultiLanguageString")]]

\* C38 (as stated): when a decoded block gives (language, value) pairs for a
\* field of multi-language text type, the field is in the decoded
\* attributes with one entry per pair of a block.
C38_AllPairsDecoded ==
    AttrReturned =>
        (GivingPairs # {} =>
            /\ <<"m">> \in DOMAIN result
            /\ \E i \in GivingPairs : result[<<"m">>] = PairsOf(i))

\* C38 (the part that holds): no field of multi-language text type is in
\* the decoded attributes; result and log are those of the same blocks
\* without the attributes of such fields.
C38_PairsLeaveNoTrace ==
    AttrReturned =>
        /\ \A f \in DOMAIN result : ModelFields[f] # "MultiLanguageString"
        /\ LET r == GenericAttributeParser_compositional_pass(
                        doc, AttrNode, [LoadState EXCEPT !.errors = <<>>], WithoutPairs)
           IN  result = r.merged /\ errors = r.st.errors

\* a decoded block gives two pairs for the field m: the result holds the
\* other field of the block, not m, and nothing is logged
C38_PairsLost ==
    /\ AttrReturned
    /\ \E i \in GivingPairs : Len(PairsOf(i)) = 2
    /\ DOMAIN result = {<<"a">>}
    /\ errors = <<>>


(***************************************************************************)
(* The graph during the reference and control passes.                      *)
(***************************************************************************)
\* every object of the graph is in the graph after the step, of the same
\* class, and each of its fields holds what it held
Grows ==
    \A r \in DOMAIN heap :
        /\ r \in DOMAIN heap'
        /\ heap'[r].cls = heap[r].cls
        /\ \A f \in DOMAIN heap[r].val : Range(heap[r].val[f]) \subseteq Range(heap'[r].val[f])
\* the reference field that the reference pass of node n assigns from its
\* associations of type AssignedType(n)
AssignedField(n) == IF Cls(doc, n) = "Nozzle" THEN "chamber" ELSE "referencedConnector"
AssignedType(n) == IF Cls(doc, n) = "Nozzle" THEN "is located in" ELSE "refers to"
\* the nodes whose reference pass went through such associations
Assigning ==
    {n \in 1..Len(doc.els) :
        /\ Built(ps[n])
        /\ BoundaryAt(n, "ref") = {}
        /\ \/ Cls(doc, n) = "Nozzle"
           \/ ClsOf(heap, ps[n].obj) = "PipeOffPageConnectorObjectReference"}
\* the associations of node n whose object the field takes, in their order
Takers(n) ==
    SelectSeq(KidsOf(doc, n, {"Association"}),
              LAMBDA k : /\ is_valid(ps[k])
                         /\ ps[k].assocType = AssignedType(n)
                         /\ Assign(heap, ps[n].obj, AssignedField(n), ps[k].refItem).ok)
\* the field of node n holds the object of the i-th of them
HoldsTaker(n, i) == Get(heap, ps[n].obj, AssignedField(n)) = ps[Takers(n)[i]].refItem
\* node n has two associations of the type that name different objects
TwoTakers(n) ==
    Len(Takers(n)) = 2 /\ ps[Takers(n)[1]].refItem # ps[Takers(n)[2]].refItem

\* C39 (as stated): in the reference and control passes no object leaves the
\* graph and no field loses what it holds, and a reference field assigned
\* from an association keeps the object of the first association that set it.
C39_GraphOnlyGrows ==
    /\ [][(pc \in {"composed", "referenced"}) => Grows]_vars
    /\ [](pc \in {"referenced", "done"} =>
            \A n \in Assigning : Takers(n) # <<>> => HoldsTaker(n, 1))

\* C39 (the part that holds): from pass to pass no object leaves the graph
\* and no field loses what it holds; within the reference pass the reference
\* field of a nozzle or of an object reference holds the object of the last
\* association that set it.
C39_GrowsBetweenPasses ==
    /\ [][(pc \in {"composed", "referenced"}) => Grows]_vars
    /\ [](pc \in {"referenced", "done"} =>
            \A n \in Assigning : Takers(n) # <<>> => HoldsTaker(n, Len(Takers(n))))

\* a nozzle with two associations "is located in" that name two chambers:
\* its chamber is the second
C39_SecondAssociationOverwrites ==
    /\ pc = "done"
    /\ \E n \in Assigning : Cls(doc, n) = "Nozzle" /\ TwoTakers(n) /\ HoldsTaker(n, 2)

\* a control pass that added to the graph of the reference pass
C39_Witness ==
    /\ pc = "done"
    /\ heap # Referenced(doc).heap
    /\ \E n \in Assigning : Takers(n) # <<>>


(***************************************************************************)
(* The registries of a loader that loads again.                            *)
(***************************************************************************)
\* the states a load of the document on a new loader can be in at pc
AloneAt ==
    CASE pc = "built" -> {FreshState(doc)}
      [] pc = "composed" -> {Composed(doc)}
      [] pc = "referenced" -> {Referenced(doc)}
      [] pc = "done" -> {Controlled(doc)}
      [] pc = "aborted" -> {s \in {Composed(doc), Referenced(doc), Controlled(doc)} :
                               s.exc # NoExc}
      [] OTHER -> {}

\* C40: in every state of every load on a loader, the object registry and
\* the diagnostic log (the registry get_error_registry returns) are those of
\* the same load on a new loader: nothing of an earlier load is in them.
C40_EachLoadStartsEmpty ==
    pc # "idle" =>
        \E s \in AloneAt : objects = s.objects /\ errors = s.errors

\* a second load on the same loader has built its parser tree: registry and
\* log are empty, while the load before it has left objects in the registry
\* or was aborted
C40_Witness ==
    /\ loads = 2
    /\ pc = "built"
    /\ doc = BaseEqDoc
    /\ objects = <<>>
    /\ errors = <<>>

=============================================================================
